---------------------------- MODULE Spec2Model ----------------------------
(***************************************************************************)
(* PCBuilder (src/PC-Builder_bot.py): the budget allocator                 *)
(* get_budget_distribution and the component resolver auto_build_pc, over  *)
(* a catalog of priced parts (the tables of src/db.py).                    *)
(*                                                                         *)
(* Money.  The allocator mixes ints and floats: a floor takes needed*0.7   *)
(* from 'hdd' and needed*0.3 from 'case', so amounts carry up to three     *)
(* decimals.  Every amount of a plan is therefore kept in thousandths of a *)
(* rouble (Milli); int(x) is truncation of such an amount.  Prices, the    *)
(* total budget and the remaining budget are whole roubles.                *)
(*                                                                         *)
(* Profiles.  The Russian profile strings of the source are written        *)
(*   "gaming"      'Игровой компьютер'                                     *)
(*   "graphics"    'Компьютер для работы с графикой'                       *)
(*   "office"      'Офисный компьютер'                                     *)
(*   "server"      'Сервер'                                                *)
(*   "home"        'Домашний компьютер'                                    *)
(*   "programming" 'Компьютер для программирования'                        *)
(*   "other"       any other string (the default table)                    *)
(*                                                                         *)
(* Messages.  A message text is the sequence of its characters; a button   *)
(* or command text is one symbol:                                          *)
(*   "/start"           the /start command                                 *)
(*   "home_button"      '🏠 Вернуться в главное меню' (with the emoji)     *)
(*   "menu_back_button" 'Вернуться в главное меню' (without the emoji)     *)
(*   "ready_pc"         'Подобрать готовый ПК'                             *)
(*   "components"       'Подобрать комплектующие'                          *)
(*   "back"             'Назад'                                            *)
(*   "no_preference"    'Без предпочтений'                                 *)
(*   "show_more"        'Показать ещё вариант'                             *)
(*   "links"            '🔗 Ссылки на покупку'                             *)
(*   "rebuild"          '🔄 Собрать новую конфигурацию'                    *)
(* and the profile symbols above stand for the PC type buttons.            *)
(***************************************************************************)
EXTENDS Integers, Sequences, FiniteSets, TLC

VARIABLES
    pc_type,            \* argument of auto_build_pc / get_budget_distribution
    total_budget,       \* argument
    cpu_brand,          \* argument (NULL: no preference)
    catalog,            \* the tables of PC.db, read-only during a run
    component_budgets,  \* the plan (dict: category -> amount, in thousandths)
    run,                \* the locals of auto_build_pc and the position in it (see RunInit)
    reply,              \* what the handler answers (process_budget once auto_build_pc has returned)
    state,              \* the chat's FSM state (Form.*), None when not set
    data,               \* the chat's FSM data (state.get_data())
    called,             \* the PCBuilder searches the handler has called
    message             \* message.text of the message being handled

vars ==
    <<pc_type, total_budget, cpu_brand, catalog, component_budgets, run, reply,
      state, data, called, message>>

\* Python's None where the code holds text or a dict (cpu_brand, the return value)
None == "None"

\* message.text of a message that carries no text (a photo, a sticker): None
NoText == <<>>

\* An SQL NULL in a numeric column
NULL == 0 - 1

\* cur.fetchone() returning None
NoRow == [none |-> TRUE]

-----------------------------------------------------------------------------
(* Bounds *)

\* The allocator is explored for every budget 250, 500, ..., 250 * MaxAllocSteps.
MaxAllocSteps == 800

\* The resolver is explored for the budgets 500 and 30000, 60000, ..., 30000 * MaxBudgetSteps.
MaxBudgetSteps == 5

-----------------------------------------------------------------------------
(* Arithmetic helpers *)

Milli(x) == x * 1000

Max(a, b) == IF a >= b THEN a ELSE b

Min(a, b) == IF a <= b THEN a ELSE b

RECURSIVE GCD(_, _)
GCD(a, b) == IF b = 0 THEN a ELSE GCD(b, a % b)

\* int(x) of a non-negative amount held in thousandths, again in thousandths.
IntMilli(x) == (x \div 1000) * 1000

-----------------------------------------------------------------------------
(* get_budget_distribution *)

Profiles == {"gaming", "graphics", "office", "server", "home", "programming", "other"}

\* dict key -> minimum, in roubles
MIN_BUDGETS ==
    [cpu |-> 2699, motherboard |-> 4499, ram |-> 450, cooling_system |-> 299,
     psu |-> 899, case |-> 1899, gpu |-> 5499, ssd |-> 950, nvme |-> 1699,
     hdd |-> 4699]

\* The iteration order of MIN_BUDGETS.items()
MinOrder ==
    <<"cpu", "motherboard", "ram", "cooling_system", "psu", "case", "gpu",
      "ssd", "nvme", "hdd">>

\* The percentage tables, in percent (0.09 is 9).
distributions ==
    [gaming |->
        [cpu |-> 20, gpu |-> 30, motherboard |-> 9, ram |-> 10,
         cooling_system |-> 4, nvme |-> 5, hdd |-> 5, psu |-> 10, case |-> 7],
     graphics |->
        [cpu |-> 25, gpu |-> 25, motherboard |-> 9, ram |-> 10,
         cooling_system |-> 3, nvme |-> 6, hdd |-> 5, psu |-> 10, case |-> 7],
     office |->
        [cpu |-> 20, gpu |-> 5, motherboard |-> 10, ram |-> 15,
         cooling_system |-> 10, ssd |-> 20, psu |-> 10, case |-> 10],
     server |->
        [cpu |-> 21, gpu |-> 2, motherboard |-> 10, ram |-> 19,
         cooling_system |-> 10, nvme |-> 10, hdd |-> 10, psu |-> 10, case |-> 7],
     home |->
        [cpu |-> 17, gpu |-> 15, motherboard |-> 10, ram |-> 15,
         cooling_system |-> 10, nvme |-> 10, hdd |-> 5, psu |-> 10, case |-> 10],
     programming |->
        [cpu |-> 25, gpu |-> 10, motherboard |-> 10, ram |-> 13,
         cooling_system |-> 7, ssd |-> 10, nvme |-> 10, psu |-> 10, case |-> 5],
     other |->
        [cpu |-> 20, gpu |-> 20, motherboard |-> 10, ram |-> 10,
         cooling_system |-> 7, nvme |-> 10, hdd |-> 8, psu |-> 10, case |-> 5]]

\* distributions.get(pc_type, default)
distribution(t) == IF t \in DOMAIN distributions THEN distributions[t] ELSE distributions["other"]

\* dict.get(key, 0)
Get(d, k) == IF k \in DOMAIN d THEN d[k] ELSE 0

\* d[k] = v (adds the key when it is absent)
Put(d, k, v) == [c \in (DOMAIN d) \cup {k} |-> IF c = k THEN v ELSE d[c]]

\* component_budgets = {comp: int(total_budget * perc)}
RawBudgets(t, total) ==
    [c \in DOMAIN distribution(t) |-> Milli((total * distribution(t)[c]) \div 100)]

\* Fault injection for C8: the floor's take without the clamp at zero.
TakeFromUnclamped(amount, needed, tenths) == amount - (needed * tenths) \div 10

\* What one floor takes from the "less important" categories: max(0, amount - needed * share)
TakeFrom(amount, needed, tenths) == Max(0, amount - (needed * tenths) \div 10)

\* One iteration of the MIN_BUDGETS loop, for category c.
ApplyMinimum(cb, c) ==
    IF c \in DOMAIN cb /\ cb[c] < Milli(MIN_BUDGETS[c])
    THEN LET needed == Milli(MIN_BUDGETS[c]) - cb[c]
             cb1 == IF c # "hdd" THEN Put(cb, "hdd", TakeFrom(Get(cb, "hdd"), needed, 7)) ELSE cb
             cb2 == IF c # "case" THEN Put(cb1, "case", TakeFrom(Get(cb1, "case"), needed, 3)) ELSE cb1
         IN  Put(cb2, c, Milli(MIN_BUDGETS[c]))
    ELSE cb

RECURSIVE ApplyMinimumsFrom(_, _)
ApplyMinimumsFrom(cb, i) ==
    IF i > Len(MinOrder) THEN cb ELSE ApplyMinimumsFrom(ApplyMinimum(cb, MinOrder[i]), i + 1)

\* for component, min_price in MIN_BUDGETS.items(): ...
ApplyMinimums(cb) == ApplyMinimumsFrom(cb, 1)

\* The scale is the double nearest to total_budget / 100000. For these (total budget,
\* amount in roubles) the exact product is a whole number and the double product
\* falls just below it, so int() yields one rouble less than the exact quotient.
\* (Every such pair with a total budget that is a multiple of 250 up to 205000.)
ScaleShortfall ==
    {<<113000, 11300>>, <<113000, 22600>>, <<114000, 5700>>, <<114000, 11400>>,
     <<114000, 22800>>, <<114000, 28500>>, <<115000, 6900>>, <<115000, 11500>>,
     <<115000, 23000>>, <<116000, 5800>>, <<116000, 11600>>, <<116000, 23200>>,
     <<138000, 20700>>, <<138000, 34500>>, <<138000, 41400>>, <<139000, 41700>>,
     <<140000, 2800>>, <<140000, 21000>>, <<140000, 42000>>}

\* int(amount * scale), scale = min(1.5, total_budget / 100000); amount >= 0 in thousandths
ScaleUp(amount, total) ==
    IF total >= 150000
    THEN IntMilli((amount * 3) \div 2)
    ELSE LET g == GCD(total, 100000)
             n == total \div g
             d == 100000 \div g
             q == amount \div 1000
             r == amount % 1000
             exact == (q * n + ((r * n) \div 1000)) \div d
         IN  Milli(IF r = 0 /\ <<total, q>> \in ScaleShortfall THEN exact - 1 ELSE exact)

\* int(amount * 0.8)
ScaleDown(amount) == IntMilli((amount \div 10) * 8 + ((amount % 10) * 8) \div 10)

\* if total_budget > 100000: ...
AdaptExpensive(cb, total) ==
    IF total > 100000
    THEN [c \in DOMAIN cb |->
            IF c \in {"cpu", "gpu", "ram", "nvme"} THEN ScaleUp(cb[c], total)
            ELSE IF c \in {"hdd", "case"} THEN ScaleDown(cb[c])
            ELSE cb[c]]
    ELSE cb

\* The caps of 'Офисный компьютер' and 'Сервер'
OfficeServerCaps(cb) ==
    LET cb1 == Put(cb, "gpu", Min(Get(cb, "gpu"), Milli(5000)))
    IN  IF "nvme" \in DOMAIN cb1
        THEN LET cb2 == Put(cb1, "nvme", Min(cb1["nvme"], Milli(10000)))
             IN  Put(cb2, "ssd", Get(cb2, "ssd") + Milli((cb2["nvme"] \div 1000) \div 2))
        ELSE cb1

\* The adjustments of 'Игровой компьютер'
GamingCaps(cb) ==
    LET cb1 == Put(cb, "nvme", Max(Get(cb, "nvme"), Milli(15000)))
    IN  IF Get(cb1, "ssd") > Milli(5000)
        THEN Put(cb1, "ssd", cb1["ssd"] - Milli(3000))
        ELSE cb1

ProfileCaps(cb, t) ==
    LET cb1 == IF t \in {"office", "server"} THEN OfficeServerCaps(cb) ELSE cb
    IN  IF t = "gaming" THEN GamingCaps(cb1) ELSE cb1

get_budget_distribution(t, total) ==
    ProfileCaps(AdaptExpensive(ApplyMinimums(RawBudgets(t, total)), total), t)

-----------------------------------------------------------------------------
(* The catalog: rows of the tables of db.py, with the columns the resolver reads *)

\* A text column that lists several values ("DDR4, DDR5") is the set of the listed values.
\* text LIKE '%' || pattern || '%': the pattern occurs inside one of the listed values.
ProperSubstrings ==
    {<<"ATX", "Micro-ATX">>, <<"ATX", "Standard-ATX">>, <<"ATX", "E-ATX">>,
     <<"AM4", "AM4+">>, <<"NVMe", "PCIe NVMe">>}

IsSubstring(pattern, value) == pattern = value \/ <<pattern, value>> \in ProperSubstrings

Like(text, pattern) == \E value \in text : IsSubstring(pattern, value)

CpuRows ==
    {[cpu_name |-> "Athlon 3000G", manufacturer |-> "AMD", socket |-> "AM4", cores |-> 2,
      clock_frequency |-> 3500, ram_type |-> {"DDR4"}, heat_gen |-> 35, energy |-> 35,
      price |-> 2600],
     [cpu_name |-> "Ryzen 5 7600", manufacturer |-> "AMD", socket |-> "AM5", cores |-> 6,
      clock_frequency |-> 4700, ram_type |-> {"DDR5"}, heat_gen |-> 65, energy |-> 105,
      price |-> 11000],
     [cpu_name |-> "Core i5-12400", manufacturer |-> "Intel", socket |-> "LGA1700", cores |-> 6,
      clock_frequency |-> 4400, ram_type |-> {"DDR4", "DDR5"}, heat_gen |-> 65, energy |-> 117,
      price |-> 9000],
     [cpu_name |-> "Core i9-13900K", manufacturer |-> "Intel", socket |-> "LGA1700", cores |-> 24,
      clock_frequency |-> 5800, ram_type |-> {"DDR4", "DDR5"}, heat_gen |-> 125, energy |-> 253,
      price |-> 40000]}

\* A processor for a socket no motherboard of the catalog has.
CpuOrphan ==
    [cpu_name |-> "Threadripper 1920X", manufacturer |-> "AMD", socket |-> "sTR4", cores |-> 12,
     clock_frequency |-> 4000, ram_type |-> {"DDR4"}, heat_gen |-> 180, energy |-> 180,
     price |-> 14000]

MotherboardRows ==
    {[motherboard_name |-> "A320M-K", socket |-> "AM4", ram_type |-> {"DDR4"},
      max_ram_freq |-> 3200, pcie_v |-> "PCIe 3.0", form_factor |-> "Micro-ATX",
      energy |-> 30, price |-> 4400],
     [motherboard_name |-> "B650 Gaming", socket |-> "AM5", ram_type |-> {"DDR5"},
      max_ram_freq |-> 6000, pcie_v |-> "PCIe 4.0", form_factor |-> "Standard-ATX",
      energy |-> 40, price |-> 10000],
     [motherboard_name |-> "B660M DS3H", socket |-> "LGA1700", ram_type |-> {"DDR4"},
      max_ram_freq |-> 3200, pcie_v |-> "PCIe 3.0", form_factor |-> "Micro-ATX",
      energy |-> 35, price |-> 5300],
     [motherboard_name |-> "B660M DS3H", socket |-> "LGA1700", ram_type |-> {"DDR5"},
      max_ram_freq |-> 5600, pcie_v |-> "PCIe 4.0", form_factor |-> "Micro-ATX",
      energy |-> 35, price |-> 8000],
     [motherboard_name |-> "Z790 Aorus", socket |-> "LGA1700", ram_type |-> {"DDR5"},
      max_ram_freq |-> 7200, pcie_v |-> "PCIe 5.0", form_factor |-> "Standard-ATX",
      energy |-> 50, price |-> 14000]}

\* A motherboard whose energy column is NULL.
MotherboardNoEnergy ==
    [motherboard_name |-> "B450M Pro", socket |-> "AM4", ram_type |-> {"DDR4"},
     max_ram_freq |-> 3600, pcie_v |-> "PCIe 3.0", form_factor |-> "Micro-ATX",
     energy |-> NULL, price |-> 3900]

\* A full-size ATX motherboard: its form factor is written the way it occurs inside
\* "Micro-ATX" and "Standard-ATX".
MotherboardAtx ==
    [motherboard_name |-> "B550 Tomahawk", socket |-> "AM4", ram_type |-> {"DDR4"},
     max_ram_freq |-> 4400, pcie_v |-> "PCIe 4.0", form_factor |-> "ATX",
     energy |-> 45, price |-> 5000]

RamRows ==
    {[ram_name |-> "Value 4G", ram_type |-> {"DDR4"}, clock_freq |-> 2666, moduls_in_set |-> 1,
      amount |-> 4, energy |-> 3, price |-> 440],
     [ram_name |-> "Fury 2x8G", ram_type |-> {"DDR4"}, clock_freq |-> 3200, moduls_in_set |-> 2,
      amount |-> 16, energy |-> 3, price |-> 2900],
     [ram_name |-> "Viper 16G", ram_type |-> {"DDR4"}, clock_freq |-> 3600, moduls_in_set |-> 1,
      amount |-> 16, energy |-> 3, price |-> 2500],
     [ram_name |-> "Fury Beast 16G", ram_type |-> {"DDR5"}, clock_freq |-> 4800, moduls_in_set |-> 1,
      amount |-> 16, energy |-> 5, price |-> 4000],
     [ram_name |-> "Trident 2x16G", ram_type |-> {"DDR5"}, clock_freq |-> 6000, moduls_in_set |-> 2,
      amount |-> 32, energy |-> 5, price |-> 8000]}

CoolingRows ==
    {[cs_name |-> "Stock LP", socket |-> {"AM4", "LGA1700"}, type |-> "Air", height |-> 47,
      power_dissipation |-> 95, price |-> 290],
     [cs_name |-> "Tower 120", socket |-> {"AM4", "AM5", "LGA1700"}, type |-> "Air", height |-> 155,
      power_dissipation |-> 150, price |-> 1100],
     [cs_name |-> "Tower 140", socket |-> {"AM4", "AM5", "LGA1700", "sTR4"}, type |-> "Air",
      height |-> 165, power_dissipation |-> 250, price |-> 3000],
     [cs_name |-> "AIO 240", socket |-> {"AM5", "LGA1700"}, type |-> "Liquid", height |-> 27,
      power_dissipation |-> 300, price |-> 5500]}

\* A tall air cooler that ranks first for the smaller processors and fits only the
\* largest case.
CoolingTall ==
    [cs_name |-> "Tall 90", socket |-> {"AM4", "LGA1700"}, type |-> "Air", height |-> 162,
     power_dissipation |-> 90, price |-> 250]

GpuRows ==
    {[gpu_name |-> "GT 1030", con_interface |-> "PCIe 3.0", gpu_memory |-> 2, length |-> 170,
      energy |-> 30, price |-> 5400],
     [gpu_name |-> "RX 7600", con_interface |-> "PCIe 4.0", gpu_memory |-> 8, length |-> 204,
      energy |-> 165, price |-> 8900],
     [gpu_name |-> "RTX 3060", con_interface |-> "PCIe 4.0", gpu_memory |-> 12, length |-> 242,
      energy |-> 170, price |-> 17000],
     [gpu_name |-> "RTX 4090", con_interface |-> "PCIe 4.0", gpu_memory |-> 24, length |-> 336,
      energy |-> 450, price |-> 60000]}

SsdRows ==
    {[storage_name |-> "NV2 500", connection_interface |-> {"PCIe NVMe"}, capacity |-> 500,
      max_data_transfer_rate |-> 3500, energy |-> 5, price |-> 1600],
     [storage_name |-> "990 Pro 2T", connection_interface |-> {"PCIe NVMe"}, capacity |-> 2000,
      max_data_transfer_rate |-> 7000, energy |-> 6, price |-> 12000],
     [storage_name |-> "A400 480", connection_interface |-> {"SATA"}, capacity |-> 480,
      max_data_transfer_rate |-> 500, energy |-> 3, price |-> 940],
     [storage_name |-> "870 Evo 2T", connection_interface |-> {"SATA"}, capacity |-> 2000,
      max_data_transfer_rate |-> 560, energy |-> 4, price |-> 9000]}

StorageRows ==
    {[storage_name |-> "Blue 1T", storage_type |-> "HDD", capacity |-> 1000, energy |-> 7,
      price |-> 4600],
     [storage_name |-> "IronWolf 8T", storage_type |-> "HDD", capacity |-> 8000, energy |-> 9,
      price |-> 10000],
     [storage_name |-> "Portable 1T", storage_type |-> "SSD", capacity |-> 1000, energy |-> 3,
      price |-> 4000]}

PsuRows ==
    {[psu_name |-> "Eco 450", power |-> 450, certificate |-> "N", price |-> 890],
     [psu_name |-> "Pure 650", power |-> 650, certificate |-> "Bronze", price |-> 2900],
     [psu_name |-> "Classic 650", power |-> 650, certificate |-> "80 Plus", price |-> 3500],
     [psu_name |-> "Focus 750", power |-> 750, certificate |-> "Gold", price |-> 10000],
     [psu_name |-> "Prime 1000", power |-> 1000, certificate |-> "Platinum", price |-> 16000]}

CaseRows ==
    {[case_name |-> "Mini 100", motherboard_form |-> {"Micro-ATX", "Mini-ITX"}, gpu_length |-> 300,
      cooler_height |-> 160, lcs_sup |-> "N", rating |-> 40, price |-> 1800],
     [case_name |-> "Tower 500", motherboard_form |-> {"ATX", "Standard-ATX", "Micro-ATX"},
      gpu_length |-> 400, cooler_height |-> 175, lcs_sup |-> "Y", rating |-> 48, price |-> 5000],
     [case_name |-> "Office 10", motherboard_form |-> {"Micro-ATX"}, gpu_length |-> 200,
      cooler_height |-> 80, lcs_sup |-> "N", rating |-> 35, price |-> 400]}

\* The contents a table may have: all its rows, or a part of them.
CpuTables == {CpuRows, CpuRows \cup {CpuOrphan}}

MotherboardTables ==
    {MotherboardRows, MotherboardRows \cup {MotherboardNoEnergy},
     MotherboardRows \cup {MotherboardAtx}}

PsuTables == {PsuRows, {r \in PsuRows : r.power <= 650}, {}}

GpuTables == {GpuRows, {}}

CaseTables == {CaseRows, {}}

RamTables == {RamRows, {r \in RamRows : r.ram_type = {"DDR4"}}}

CoolingTables == {CoolingRows, CoolingRows \cup {CoolingTall}, {}}

Catalogs ==
    [cpu : CpuTables, motherboard : MotherboardTables, ram : RamTables,
     cooling_system : CoolingTables, gpu : GpuTables, ssd : {SsdRows},
     storage : {StorageRows}, psu : PsuTables, cases : CaseTables]

Budgets == {500} \cup {30000 * k : k \in 1..MaxBudgetSteps}

\* cpu_brand: None ('Без предпочтений') or a manufacturer
Brands == {None, "AMD", "Intel"}

-----------------------------------------------------------------------------
(* auto_build_pc *)

\* Fault injection for C18: the generations in the opposite order.
GenerationsReversed == <<"DDR4", "DDR5">>

\* for ram_type in ['DDR5', 'DDR4']
Generations == <<"DDR5", "DDR4">>

\* ORDER BY cores DESC, clock_frequency DESC, price ASC
CpuBefore(a, b) ==
    \/ a.cores > b.cores
    \/ a.cores = b.cores /\ a.clock_frequency > b.clock_frequency
    \/ a.cores = b.cores /\ a.clock_frequency = b.clock_frequency /\ a.price < b.price

\* ORDER BY max_ram_freq DESC, price ASC
MotherboardBefore(a, b) ==
    \/ a.max_ram_freq > b.max_ram_freq
    \/ a.max_ram_freq = b.max_ram_freq /\ a.price < b.price

\* ORDER BY amount DESC, price ASC
RamBefore(a, b) == a.amount > b.amount \/ (a.amount = b.amount /\ a.price < b.price)

\* ORDER BY power_dissipation ASC, price ASC
CoolingBefore(a, b) ==
    \/ a.power_dissipation < b.power_dissipation
    \/ a.power_dissipation = b.power_dissipation /\ a.price < b.price

\* ORDER BY gpu_memory DESC, price ASC
GpuBefore(a, b) == a.gpu_memory > b.gpu_memory \/ (a.gpu_memory = b.gpu_memory /\ a.price < b.price)

\* ORDER BY capacity DESC, max_data_transfer_rate DESC
SsdBefore(a, b) ==
    \/ a.capacity > b.capacity
    \/ a.capacity = b.capacity /\ a.max_data_transfer_rate > b.max_data_transfer_rate

\* ORDER BY capacity DESC
HddBefore(a, b) == a.capacity > b.capacity

\* The CASE of the PSU query: 'N' is 1, a listed certificate is 0, anything else is NULL,
\* and SQLite sorts NULL before every number in ascending order.
CertificateRank(certificate) ==
    IF certificate = "N" THEN 1
    ELSE IF certificate \in {"Standart", "Bronze", "Silver", "Gold", "Platinum", "Titanium"} THEN 0
    ELSE NULL

\* ORDER BY CASE ... END, price ASC
PsuBefore(a, b) ==
    \/ CertificateRank(a.certificate) < CertificateRank(b.certificate)
    \/ CertificateRank(a.certificate) = CertificateRank(b.certificate) /\ a.price < b.price

\* Fault injection for C15: the retry ordered by price descending.
PriceBeforeDescending(a, b) == a.price > b.price

\* ORDER BY price ASC
PriceBefore(a, b) == a.price < b.price

\* ORDER BY rating DESC, price ASC
CaseBefore(a, b) == a.rating > b.rating \/ (a.rating = b.rating /\ a.price < b.price)

\* Fault injection for C13: the prebuilt systems ordered by price ascending.
PcBeforeCheapest(a, b) == a.price < b.price \/ (a.price = b.price /\ a.rating > b.rating)

\* ORDER BY price DESC, rating DESC (a NULL rating sorts last)
PcBefore(a, b) == a.price > b.price \/ (a.price = b.price /\ a.rating > b.rating)

\* The ORDER BY clause of each query, by the name of its ordering
OrderBy(order, a, b) ==
    CASE order = "cpu" -> CpuBefore(a, b)
      [] order = "motherboard" -> MotherboardBefore(a, b)
      [] order = "ram" -> RamBefore(a, b)
      [] order = "cooling" -> CoolingBefore(a, b)
      [] order = "gpu" -> GpuBefore(a, b)
      [] order = "ssd" -> SsdBefore(a, b)
      [] order = "hdd" -> HddBefore(a, b)
      [] order = "psu" -> PsuBefore(a, b)
      [] order = "price" -> PriceBefore(a, b)
      [] order = "case" -> CaseBefore(a, b)
      [] order = "pc" -> PcBefore(a, b)

\* ORDER BY ... LIMIT 1, then fetchone(): a row no other row precedes, or None.
FetchOne(rows, order) ==
    IF rows = {} THEN NoRow ELSE CHOOSE r \in rows : \A o \in rows : ~OrderBy(order, o, r)

\* price <= ? with a ceiling held in thousandths
Within(row, ceiling) == Milli(row.price) <= ceiling

\* The locals of auto_build_pc once the plan is computed (lines 298-302) and the loop starts.
RunInit(total) ==
    [pc |-> "cpu", gen |-> 1, cpu |-> NoRow, mb |-> NoRow,
     components |-> <<>>, remaining_budget |-> total, total_power |-> 0,
     warnings |-> <<>>, potential_coolers |-> <<>>,
     required_power |-> 0, psu_budget |-> 0,
     ret |-> "pending", raised |-> FALSE]

\* except Exception: logging.error(...); return None
Raise(st) == [st EXCEPT !.pc = "done", !.ret = None, !.raised = TRUE]

\* Fault injection for C17: abandoning a trial keeps and pays the CPU it had found.
ContinueRetaining(st) ==
    LET kept == IF st.pc # "cpu" /\ st.cpu # NoRow
                THEN [st EXCEPT !.components = Put(@, "cpu", st.cpu),
                                !.remaining_budget = @ - st.cpu.price]
                ELSE st
    IN  IF st.gen < 2 THEN [kept EXCEPT !.gen = @ + 1, !.pc = "cpu"]
        ELSE [kept EXCEPT !.pc = "exhausted"]

\* continue: the next generation, or the else branch of the for loop
Continue(st) ==
    IF st.gen < Len(Generations)
    THEN [st EXCEPT !.gen = @ + 1, !.pc = "cpu"]
    ELSE [st EXCEPT !.pc = "exhausted"]

CpuQuery(cat, cb, brand, ram_type) ==
    {r \in cat.cpu : /\ Within(r, cb["cpu"])
                     /\ (brand = None \/ r.manufacturer = brand)
                     /\ Like(r.ram_type, ram_type)}

select_cpu(st, brand, cat, cb) ==
    LET cpu == FetchOne(CpuQuery(cat, cb, brand, Generations[st.gen]), "cpu")
    IN  IF cpu = NoRow THEN Continue(st) ELSE [st EXCEPT !.cpu = cpu, !.pc = "motherboard"]

MotherboardQuery(cat, cb, socket, ram_type) ==
    {r \in cat.motherboard : /\ r.socket = socket
                             /\ Like(r.ram_type, ram_type)
                             /\ Within(r, cb["motherboard"])}

select_motherboard(st, cat, cb) ==
    LET mb == FetchOne(MotherboardQuery(cat, cb, st.cpu.socket, Generations[st.gen]),
                       "motherboard")
    IN  IF mb = NoRow THEN Continue(st) ELSE [st EXCEPT !.mb = mb, !.pc = "ram"]

\* ram_modules = 2 if total_budget > 50000 else 1
RamModules(total) == IF total > 50000 THEN 2 ELSE 1

\* Fault injection for C3: the RAM query without the frequency bound.
RamQueryAnyFrequency(cat, cb, ram_type, max_freq, ram_modules) ==
    {r \in cat.ram : /\ Like(r.ram_type, ram_type)
                     /\ Within(r, cb["ram"])
                     /\ r.moduls_in_set <= ram_modules}

RamQuery(cat, cb, ram_type, max_freq, ram_modules) ==
    {r \in cat.ram : /\ Like(r.ram_type, ram_type)
                     /\ r.clock_freq <= max_freq
                     /\ Within(r, cb["ram"])
                     /\ r.moduls_in_set <= ram_modules}

\* The power the three parts add; None + number raises TypeError.
PlatformPower(cpu, mb, ram) == cpu.energy + mb.energy + ram.energy * ram.moduls_in_set

select_ram(st, total, cat, cb) ==
    LET ram == FetchOne(RamQuery(cat, cb, Generations[st.gen], st.mb.max_ram_freq,
                                 RamModules(total)), "ram")
    IN  IF ram = NoRow THEN Continue(st)
        ELSE IF NULL \in {st.cpu.energy, st.mb.energy, ram.energy} THEN Raise(st)
        ELSE [st EXCEPT
                !.components = Put(Put(Put(@, "cpu", st.cpu), "motherboard", st.mb), "ram", ram),
                !.remaining_budget = @ - (st.cpu.price + st.mb.price + ram.price),
                !.total_power = @ + PlatformPower(st.cpu, st.mb, ram),
                !.pc = "cooling"]

\* else: warnings.append(...); return None
generations_exhausted(st) ==
    [st EXCEPT !.warnings = Append(@, "no compatible CPU, MB and RAM"),
               !.ret = None, !.pc = "done"]

\* Fault injection for C24: the cooling query without the dissipation bound.
CoolingQueryAnyDissipation(cat, cb, cpu) ==
    {r \in cat.cooling_system : /\ Like(r.socket, cpu.socket)
                                /\ Within(r, cb["cooling_system"])}

CoolingQuery(cat, cb, cpu) ==
    {r \in cat.cooling_system : /\ Like(r.socket, cpu.socket)
                                /\ Within(r, cb["cooling_system"])
                                /\ r.power_dissipation * 10 >= cpu.heat_gen * 12}

\* ORDER BY ... LIMIT n, then fetchall()
RECURSIVE CoolingTop(_, _)
CoolingTop(rows, n) ==
    IF n = 0 \/ rows = {} THEN <<>>
    ELSE LET first == FetchOne(rows, "cooling")
         IN  <<first>> \o CoolingTop(rows \ {first}, n - 1)

select_cooling(st, cat, cb) ==
    [st EXCEPT !.potential_coolers = CoolingTop(CoolingQuery(cat, cb, st.components["cpu"]), 3),
               !.pc = "gpu"]

\* con_interface IN (SELECT pcie_v FROM motherboard WHERE motherboard_name = ?)
GpuQuery(cat, cb, motherboard_name) ==
    {r \in cat.gpu : /\ Within(r, cb["gpu"])
                     /\ r.con_interface \in {m.pcie_v : m \in {x \in cat.motherboard :
                                                 x.motherboard_name = motherboard_name}}}

\* Fault injection for C20: the GPU stage run for every profile.
NeedsGpuAlways(t) == TRUE

NeedsGpu(t) == t \in {"gaming", "graphics"}

select_gpu(st, t, cat, cb) ==
    IF NeedsGpu(t)
    THEN LET gpu == FetchOne(GpuQuery(cat, cb, st.components["motherboard"].motherboard_name),
                             "gpu")
         IN  IF gpu # NoRow
             THEN [st EXCEPT !.components = Put(@, "gpu", gpu),
                             !.remaining_budget = @ - gpu.price,
                             !.total_power = @ + gpu.energy,
                             !.pc = "nvme"]
             ELSE [st EXCEPT !.warnings = Append(@, "no compatible GPU"), !.pc = "nvme"]
    ELSE [st EXCEPT !.pc = "nvme"]

\* min(component_budgets[c], remaining_budget), in thousandths
StorageCeiling(st, cb, c) == Min(cb[c], Milli(st.remaining_budget))

\* One storage pick: commit the row under the key, pay it, add its power.
CommitStorage(st, key, row, next) ==
    IF row # NoRow
    THEN [st EXCEPT !.components = Put(@, key, row),
                    !.remaining_budget = @ - row.price,
                    !.total_power = @ + row.energy,
                    !.pc = next]
    ELSE [st EXCEPT !.pc = next]

NvmeQuery(cat, ceiling) ==
    {r \in cat.ssd : Like(r.connection_interface, "NVMe") /\ Within(r, ceiling)}

select_nvme(st, cat, cb) ==
    IF Get(cb, "nvme") > 0
    THEN CommitStorage(st, "nvme", FetchOne(NvmeQuery(cat, StorageCeiling(st, cb, "nvme")), "ssd"), "ssd")
    ELSE [st EXCEPT !.pc = "ssd"]

SataQuery(cat, ceiling) ==
    {r \in cat.ssd : Like(r.connection_interface, "SATA") /\ Within(r, ceiling)}

select_ssd(st, cat, cb) ==
    IF Get(cb, "ssd") > 0 /\ st.remaining_budget > 0
    THEN CommitStorage(st, "ssd", FetchOne(SataQuery(cat, StorageCeiling(st, cb, "ssd")), "ssd"), "hdd")
    ELSE [st EXCEPT !.pc = "hdd"]

HddQuery(cat, ceiling) ==
    {r \in cat.storage : r.storage_type = "HDD" /\ Within(r, ceiling)}

select_hdd(st, cat, cb) ==
    IF Get(cb, "hdd") > 0 /\ st.remaining_budget > 0
    THEN CommitStorage(st, "hdd", FetchOne(HddQuery(cat, StorageCeiling(st, cb, "hdd")), "hdd"), "psu")
    ELSE [st EXCEPT !.pc = "psu"]

\* required_power, in tenths of a watt (the multipliers are 1.3 and 1.2)
RequiredPower(total_power, t) ==
    LET rounded == ((total_power + 100) \div 50) * 50
    IN  IF t = "gaming" THEN Max(rounded * 13, 6500)
        ELSE IF t = "graphics" THEN Max(rounded * 12, 5500)
        ELSE Max(rounded, 450) * 10

\* psu_budget, in thousandths
PsuBudget(cb, remaining_budget) ==
    LET base == Max(cb["psu"], Milli(MIN_BUDGETS["psu"]))
    IN  IF Milli(remaining_budget) > base
        THEN Min(base + Milli(remaining_budget \div 2), Milli(remaining_budget))
        ELSE base

PsuQuery(cat, required_power, psu_budget) ==
    {r \in cat.psu : r.power * 10 >= required_power /\ Within(r, psu_budget)}

\* Fault injection for C4: the retry without the wattage bound.
PsuRetryQueryAnyPower(cat, required_power) == cat.psu

PsuRetryQuery(cat, required_power) == {r \in cat.psu : r.power * 10 >= required_power}

\* Fault injection for C28: the PSU committed without being paid.
CommitPsuUnpaid(st, psu) ==
    IF psu # NoRow
    THEN [st EXCEPT !.components = Put(@, "psu", psu), !.pc = "case"]
    ELSE [st EXCEPT !.warnings = Append(@, "no PSU with the required power"), !.pc = "case"]

\* if psu: ... else: warnings.append(...)
CommitPsu(st, psu) ==
    IF psu # NoRow
    THEN [st EXCEPT !.components = Put(@, "psu", psu),
                    !.remaining_budget = @ - psu.price,
                    !.pc = "case"]
    ELSE [st EXCEPT !.warnings = Append(@, "no PSU with the required power"), !.pc = "case"]

\* Lines 481-508: sizing and the price-limited query; a miss goes on to the retry.
select_psu(st, t, cat, cb) ==
    LET required_power == RequiredPower(st.total_power, t)
        psu_budget == PsuBudget(cb, st.remaining_budget)
        psu == FetchOne(PsuQuery(cat, required_power, psu_budget), "psu")
        sized == [st EXCEPT !.required_power = required_power, !.psu_budget = psu_budget]
    IN  IF psu = NoRow THEN [sized EXCEPT !.pc = "psu_retry"] ELSE CommitPsu(sized, psu)

\* Fault injection for C27: a retry that finds nothing starts the PSU stage again.
retry_psu_again(st, cat) ==
    LET psu == FetchOne(PsuRetryQuery(cat, st.required_power), "price")
    IN  IF psu = NoRow THEN [st EXCEPT !.pc = "psu"] ELSE CommitPsu(st, psu)

\* Lines 510-524: the query without the price ceiling
retry_psu(st, cat) ==
    CommitPsu(st, FetchOne(PsuRetryQuery(cat, st.required_power), "price"))

\* str.lower() of the values the type column takes
Lower(text) == IF text = "Liquid" THEN "liquid" ELSE IF text = "Air" THEN "air" ELSE text

\* Fault injection for C31: the case query without its cooler condition.
CaseFitsAnyCooler(case, coolers) == TRUE

\* The cooler condition of the case query, from the first short-listed cooler
CaseFitsFirstCooler(case, coolers) ==
    IF coolers = <<>> THEN TRUE
    ELSE IF Lower(coolers[1].type) = "liquid" THEN case.lcs_sup = "Y"
    ELSE case.cooler_height >= coolers[1].height

CaseQuery(cat, cb, components, coolers) ==
    {r \in cat.cases : /\ Within(r, cb["case"])
                       /\ Like(r.motherboard_form, components["motherboard"].form_factor)
                       /\ ("gpu" \in DOMAIN components => r.gpu_length >= components["gpu"].length)
                       /\ CaseFitsFirstCooler(r, coolers)}

\* if cooler_type == 'liquid': lcs_sup == 'Y' else: height <= cooler_height
CoolerFitsCase(cooler, case) ==
    IF Lower(cooler.type) = "liquid" THEN case.lcs_sup = "Y"
    ELSE cooler.height <= case.cooler_height

\* for cooler in potential_coolers: ... break
RECURSIVE FirstFitting(_, _, _)
FirstFitting(coolers, case, i) ==
    IF i > Len(coolers) THEN NoRow
    ELSE IF CoolerFitsCase(coolers[i], case) THEN coolers[i]
    ELSE FirstFitting(coolers, case, i + 1)

\* Fault injection for C30: without a case the first short-listed cooler is committed.
select_case_cooler_anyway(st, cat, cb) ==
    LET case == FetchOne(CaseQuery(cat, cb, st.components, st.potential_coolers), "case")
    IN  IF case # NoRow
        THEN LET selected_cooler == FirstFitting(st.potential_coolers, case, 1)
                 housed == [st EXCEPT !.components = Put(@, "case", case),
                                      !.remaining_budget = @ - case.price,
                                      !.pc = "check"]
             IN  IF selected_cooler # NoRow
                 THEN [housed EXCEPT !.components = Put(@, "cooling_system", selected_cooler),
                                     !.remaining_budget = @ - selected_cooler.price]
                 ELSE [housed EXCEPT !.warnings = Append(@, "no compatible cooling system")]
        ELSE IF st.potential_coolers # <<>>
        THEN [st EXCEPT !.components = Put(@, "cooling_system", st.potential_coolers[1]),
                        !.remaining_budget = @ - st.potential_coolers[1].price,
                        !.warnings = Append(@, "no compatible case"), !.pc = "check"]
        ELSE [st EXCEPT !.warnings = Append(@, "no compatible case"), !.pc = "check"]

select_case(st, cat, cb) ==
    LET case == FetchOne(CaseQuery(cat, cb, st.components, st.potential_coolers), "case")
    IN  IF case # NoRow
        THEN LET selected_cooler == FirstFitting(st.potential_coolers, case, 1)
                 housed == [st EXCEPT !.components = Put(@, "case", case),
                                      !.remaining_budget = @ - case.price,
                                      !.pc = "check"]
             IN  IF selected_cooler # NoRow
                 THEN [housed EXCEPT !.components = Put(@, "cooling_system", selected_cooler),
                                     !.remaining_budget = @ - selected_cooler.price]
                 ELSE [housed EXCEPT !.warnings = Append(@, "no compatible cooling system")]
        ELSE [st EXCEPT !.warnings = Append(@, "no compatible case"), !.pc = "check"]

required_components == {"cpu", "motherboard", "ram", "psu"}

\* Fault injection for C1: the return without the required-components check.
check_required_skipped(st) ==
    [st EXCEPT !.components = IF st.warnings # <<>> THEN Put(@, "warnings", st.warnings) ELSE @,
               !.ret = "components", !.pc = "done"]

\* Lines 592-601
check_required(st) ==
    IF ~(required_components \subseteq DOMAIN st.components)
    THEN [st EXCEPT !.warnings = Append(@, "not all required components"),
                    !.ret = None, !.pc = "done"]
    ELSE [st EXCEPT !.components = IF st.warnings # <<>> THEN Put(@, "warnings", st.warnings) ELSE @,
                    !.ret = "components", !.pc = "done"]

\* The statement at which the run stands, executed.
Step(st, t, total, brand, cat, cb) ==
    CASE st.pc = "cpu" -> select_cpu(st, brand, cat, cb)
      [] st.pc = "motherboard" -> select_motherboard(st, cat, cb)
      [] st.pc = "ram" -> select_ram(st, total, cat, cb)
      [] st.pc = "exhausted" -> generations_exhausted(st)
      [] st.pc = "cooling" -> select_cooling(st, cat, cb)
      [] st.pc = "gpu" -> select_gpu(st, t, cat, cb)
      [] st.pc = "nvme" -> select_nvme(st, cat, cb)
      [] st.pc = "ssd" -> select_ssd(st, cat, cb)
      [] st.pc = "hdd" -> select_hdd(st, cat, cb)
      [] st.pc = "psu" -> select_psu(st, t, cat, cb)
      [] st.pc = "psu_retry" -> retry_psu(st, cat)
      [] st.pc = "case" -> select_case(st, cat, cb)
      [] st.pc = "check" -> check_required(st)
      [] OTHER -> st

RECURSIVE RunToEnd(_, _, _, _, _, _)
RunToEnd(st, t, total, brand, cat, cb) ==
    IF st.pc = "done" THEN st ELSE RunToEnd(Step(st, t, total, brand, cat, cb), t, total, brand, cat, cb)

\* auto_build_pc(pc_type, total_budget, cpu_brand) over a catalog, when the store does not fail
auto_build_pc(t, total, brand, cat) ==
    RunToEnd(RunInit(total), t, total, brand, cat, get_budget_distribution(t, total))

\* state.update_data(components=components, budget=budget) when a configuration came back
StoreConfiguration(d, st, budget) ==
    IF st.ret = None THEN d
    ELSE Put(Put(d, "components", st.components), "budget", budget)

\* process_budget, lines 899-906: what the user is told
Answer(ret) == IF ret = None THEN "increase the budget" ELSE "configuration"

-----------------------------------------------------------------------------
(* The resolver as a state machine *)

NotStarted ==
    [pc |-> "start", gen |-> 1, cpu |-> NoRow, mb |-> NoRow,
     components |-> <<>>, remaining_budget |-> 0, total_power |-> 0,
     warnings |-> <<>>, potential_coolers |-> <<>>,
     required_power |-> 0, psu_budget |-> 0,
     ret |-> "pending", raised |-> FALSE]

\* The decimal text of a budget: the message process_budget read it from (line 888)
RECURSIVE BudgetText(_)
BudgetText(n) ==
    LET digit == <<"0", "1", "2", "3", "4", "5", "6", "7", "8", "9">>[(n % 10) + 1]
    IN  IF n < 10 THEN <<digit>> ELSE Append(BudgetText(n \div 10), digit)

Init ==
    /\ pc_type \in Profiles
    /\ total_budget \in Budgets
    /\ cpu_brand \in Brands
    /\ catalog \in Catalogs
    /\ component_budgets = <<>>
    /\ run = NotStarted
    /\ reply = "none"
    /\ state = "WAITING_FOR_BUDGET"
    /\ data = [selected_type |-> pc_type, cpu_brand |-> cpu_brand]
    /\ called = <<"auto_build_pc">>
    /\ message = BudgetText(total_budget)

Inputs == <<pc_type, total_budget, cpu_brand, catalog>>

Session == <<state, data, called, message>>

\* Lines 298-302
Begin ==
    /\ run.pc = "start"
    /\ component_budgets' = get_budget_distribution(pc_type, total_budget)
    /\ run' = RunInit(total_budget)
    /\ UNCHANGED <<Session, Inputs, reply>>

\* Lines 311-327
SelectCpu ==
    /\ run.pc = "cpu"
    /\ run' = select_cpu(run, cpu_brand, catalog, component_budgets)
    /\ UNCHANGED <<Session, Inputs, component_budgets, reply>>

\* Lines 330-346
SelectMotherboard ==
    /\ run.pc = "motherboard"
    /\ run' = select_motherboard(run, catalog, component_budgets)
    /\ UNCHANGED <<Session, Inputs, component_budgets, reply>>

\* Lines 349-379
SelectRam ==
    /\ run.pc = "ram"
    /\ run' = select_ram(run, total_budget, catalog, component_budgets)
    /\ UNCHANGED <<Session, Inputs, component_budgets, reply>>

\* Lines 380-382
GenerationsExhausted ==
    /\ run.pc = "exhausted"
    /\ run' = generations_exhausted(run)
    /\ UNCHANGED <<Session, Inputs, component_budgets, reply>>

\* Lines 385-399
SelectCooling ==
    /\ run.pc = "cooling"
    /\ run' = select_cooling(run, catalog, component_budgets)
    /\ UNCHANGED <<Session, Inputs, component_budgets, reply>>

\* Lines 402-423
SelectGpu ==
    /\ run.pc = "gpu"
    /\ run' = select_gpu(run, pc_type, catalog, component_budgets)
    /\ UNCHANGED <<Session, Inputs, component_budgets, reply>>

\* Lines 427-442
SelectNvme ==
    /\ run.pc = "nvme"
    /\ run' = select_nvme(run, catalog, component_budgets)
    /\ UNCHANGED <<Session, Inputs, component_budgets, reply>>

\* Lines 445-460
SelectSsd ==
    /\ run.pc = "ssd"
    /\ run' = select_ssd(run, catalog, component_budgets)
    /\ UNCHANGED <<Session, Inputs, component_budgets, reply>>

\* Lines 463-478
SelectHdd ==
    /\ run.pc = "hdd"
    /\ run' = select_hdd(run, catalog, component_budgets)
    /\ UNCHANGED <<Session, Inputs, component_budgets, reply>>

\* Lines 481-508, and 520-522 on a hit
SelectPsu ==
    /\ run.pc = "psu"
    /\ run' = select_psu(run, pc_type, catalog, component_budgets)
    /\ UNCHANGED <<Session, Inputs, component_budgets, reply>>

\* Lines 510-524
RetryPsu ==
    /\ run.pc = "psu_retry"
    /\ run' = retry_psu(run, catalog)
    /\ UNCHANGED <<Session, Inputs, component_budgets, reply>>

\* Lines 527-590
SelectCase ==
    /\ run.pc = "case"
    /\ run' = select_case(run, catalog, component_budgets)
    /\ UNCHANGED <<Session, Inputs, component_budgets, reply>>

\* Lines 592-601
CheckRequired ==
    /\ run.pc = "check"
    /\ run' = check_required(run)
    /\ UNCHANGED <<Session, Inputs, component_budgets, reply>>

\* The positions at which the code talks to the store (sq.connect, cur.execute, fetch)
QueryPositions ==
    {"cpu", "motherboard", "ram", "cooling", "gpu", "nvme", "ssd", "hdd", "psu",
     "psu_retry", "case"}

\* The store raises (sqlite3.Error): lines 603-605
CatalogFault ==
    /\ run.pc \in QueryPositions
    /\ run' = Raise(run)
    /\ UNCHANGED <<Session, Inputs, component_budgets, reply>>

\* process_budget after auto_build_pc has returned (lines 901-906, and show_configuration)
ProcessBudget ==
    /\ run.pc = "done"
    /\ reply = "none"
    /\ reply' = Answer(run.ret)
    /\ data' = StoreConfiguration(data, run, total_budget)
    /\ state' = IF run.ret = None THEN state ELSE "AUTO_BUILD_RESULT"
    /\ UNCHANGED <<called, message, Inputs, component_budgets, run>>

Next ==
    \/ Begin
    \/ SelectCpu
    \/ SelectMotherboard
    \/ SelectRam
    \/ GenerationsExhausted
    \/ SelectCooling
    \/ SelectGpu
    \/ SelectNvme
    \/ SelectSsd
    \/ SelectHdd
    \/ SelectPsu
    \/ RetryPsu
    \/ SelectCase
    \/ CheckRequired
    \/ CatalogFault
    \/ ProcessBudget

Spec == Init /\ [][Next]_vars

-----------------------------------------------------------------------------
(* The allocator as a state machine: get_budget_distribution, statement by statement *)

AllocBudgets == {250 * k : k \in 1..MaxAllocSteps}

EmptyCatalog ==
    [cpu |-> {}, motherboard |-> {}, ram |-> {}, cooling_system |-> {}, gpu |-> {},
     ssd |-> {}, storage |-> {}, psu |-> {}, cases |-> {}]

InitAlloc ==
    /\ pc_type \in Profiles
    /\ total_budget \in AllocBudgets
    /\ cpu_brand = None
    /\ catalog = EmptyCatalog
    /\ component_budgets = <<>>
    /\ run = [pc |-> "shares", i |-> 1]
    /\ reply = "none"
    /\ state = None
    /\ data = <<>>
    /\ called = <<>>
    /\ message = NoText

\* Lines 249-250
AllocShares ==
    /\ run.pc = "shares"
    /\ component_budgets' = RawBudgets(pc_type, total_budget)
    /\ run' = [run EXCEPT !.pc = "minimums"]
    /\ UNCHANGED <<Session, Inputs, reply>>

\* Lines 253-261, one iteration
AllocMinimum ==
    /\ run.pc = "minimums"
    /\ component_budgets' = ApplyMinimum(component_budgets, MinOrder[run.i])
    /\ run' = IF run.i < Len(MinOrder) THEN [run EXCEPT !.i = @ + 1] ELSE [run EXCEPT !.pc = "adapt"]
    /\ UNCHANGED <<Session, Inputs, reply>>

\* Lines 264-273
AllocAdapt ==
    /\ run.pc = "adapt"
    /\ component_budgets' = AdaptExpensive(component_budgets, total_budget)
    /\ run' = [run EXCEPT !.pc = "caps"]
    /\ UNCHANGED <<Session, Inputs, reply>>

\* Lines 276-287
AllocCaps ==
    /\ run.pc = "caps"
    /\ component_budgets' = ProfileCaps(component_budgets, pc_type)
    /\ run' = [run EXCEPT !.pc = "allocated"]
    /\ UNCHANGED <<Session, Inputs, reply>>

NextAlloc == AllocShares \/ AllocMinimum \/ AllocAdapt \/ AllocCaps

SpecAlloc == InitAlloc /\ [][NextAlloc]_vars

-----------------------------------------------------------------------------
(* find_best_ready_pc and find_next_ready_pc, over the tables pc and pc_profiles *)

\* The rows of pc (ratings in tenths); two rows carry the name "Gamer X".
PcRows ==
    {[pc_name |-> "Office Mini", cores |-> 4, ram |-> 8, ssd |-> 256, price |-> 30000,
      rating |-> 40, video_card_type |-> {"Integrated"}, link |-> None],
     [pc_name |-> "Home Plus", cores |-> 6, ram |-> 16, ssd |-> 512, price |-> 45000,
      rating |-> 42, video_card_type |-> {"Integrated"}, link |-> "shop/home-plus"],
     [pc_name |-> "Gamer X", cores |-> 8, ram |-> 16, ssd |-> 1000, price |-> 60000,
      rating |-> 45, video_card_type |-> {"Discrete"}, link |-> "shop/gamer-x"],
     [pc_name |-> "Gamer X", cores |-> 8, ram |-> 16, ssd |-> 1000, price |-> 52000,
      rating |-> 44, video_card_type |-> {"Discrete"}, link |-> "market/gamer-x"],
     [pc_name |-> "Gamer Y", cores |-> 8, ram |-> 32, ssd |-> 512, price |-> 60000,
      rating |-> 47, video_card_type |-> {"Discrete"}, link |-> None],
     [pc_name |-> "Studio Z", cores |-> 12, ram |-> 32, ssd |-> 2000, price |-> 95000,
      rating |-> NULL, video_card_type |-> {"Discrete"}, link |-> None]}

\* A row whose pc_name is NULL, and a row whose price is NULL
PcUnnamed ==
    [pc_name |-> None, cores |-> 8, ram |-> 16, ssd |-> 512, price |-> 58000,
     rating |-> 43, video_card_type |-> {"Discrete"}, link |-> None]

PcUnpriced ==
    [pc_name |-> "Gamer Q", cores |-> 16, ram |-> 64, ssd |-> 2000, price |-> NULL,
     rating |-> 50, video_card_type |-> {"Discrete"}, link |-> None]

PcTables == {PcRows, PcRows \cup {PcUnnamed}, PcRows \cup {PcUnpriced}, {}}

\* The rows of pc_profiles; "server" has none.
ProfileRows ==
    {[type |-> "gaming", min_cpu_cores |-> 6, min_ram |-> 16, gpu_required |-> TRUE,
      min_ssd_gb |-> 512],
     [type |-> "home", min_cpu_cores |-> 4, min_ram |-> 8, gpu_required |-> FALSE,
      min_ssd_gb |-> 256],
     [type |-> "office", min_cpu_cores |-> 2, min_ram |-> 8, gpu_required |-> FALSE,
      min_ssd_gb |-> 240]}

\* SELECT * FROM pc_profiles WHERE type=?, fetchone()
ProfileOf(cat, profile_type) ==
    IF \E p \in cat.pc_profiles : p.type = profile_type
    THEN CHOOSE p \in cat.pc_profiles : p.type = profile_type
    ELSE NoRow

\* Fault injection for C12: the exclusion list compared with its first name only.
NotInFirst(name, exclude_names) == name # None /\ exclude_names[1] # name

\* pc_name NOT IN (?, ...): NULL (not true) for a NULL name and when the list holds a NULL
NotIn(name, exclude_names) ==
    /\ name # None
    /\ \A i \in DOMAIN exclude_names : exclude_names[i] # None /\ exclude_names[i] # name

\* The WHERE clause both searches build; the exclusion is added for a non-empty list.
PcQuery(cat, profile, budget, exclude_names) ==
    {r \in cat.pc : /\ r.cores >= profile.min_cpu_cores
                    /\ r.ram >= profile.min_ram
                    /\ r.ssd >= profile.min_ssd_gb
                    /\ r.price # NULL /\ r.price <= budget
                    /\ profile.gpu_required => Like(r.video_card_type, "Discrete")
                    /\ exclude_names # <<>> => NotIn(r.pc_name, exclude_names)}

find_best_ready_pc(cat, profile_type, budget) ==
    LET profile == ProfileOf(cat, profile_type)
    IN  IF profile = NoRow THEN NoRow
        ELSE FetchOne(PcQuery(cat, profile, budget, <<>>), "pc")

find_next_ready_pc(cat, profile_type, budget, exclude_names) ==
    LET profile == ProfileOf(cat, profile_type)
    IN  IF profile = NoRow THEN NoRow
        ELSE FetchOne(PcQuery(cat, profile, budget, exclude_names), "pc")

-----------------------------------------------------------------------------
(* The two searches as a state machine: one call each, on drawn arguments *)

MaxExcluded == 2

\* The profile types a caller passes ("server" has no row in pc_profiles)
PrebuiltTypes == {"gaming", "home", "office", "server"}

PrebuiltBudgets == {25000, 45000, 59000, 60000, 100000}

PcNames == {r.pc_name : r \in PcRows \cup {PcUnnamed, PcUnpriced}}

\* exclude_names: the lists of at most MaxExcluded names
Exclusions == UNION {[1..n -> PcNames] : n \in 0..MaxExcluded}

PrebuiltCatalogs ==
    {[c \in DOMAIN EmptyCatalog \cup {"pc", "pc_profiles"} |->
         IF c = "pc" THEN t ELSE IF c = "pc_profiles" THEN ProfileRows ELSE {}] : t \in PcTables}

InitPrebuilt ==
    /\ pc_type \in PrebuiltTypes
    /\ total_budget \in PrebuiltBudgets
    /\ cpu_brand = None
    /\ catalog \in PrebuiltCatalogs
    /\ component_budgets = <<>>
    /\ run = [pc |-> "idle", found |-> NoRow]
    /\ reply = "none"
    /\ state = None
    /\ data = [shown_pcs |-> <<>>]
    /\ called = <<>>
    /\ message = NoText

\* find_best_ready_pc(profile_type, budget)
FindBest ==
    /\ run.pc = "idle"
    /\ run' = [pc |-> "best", found |-> find_best_ready_pc(catalog, pc_type, total_budget)]
    /\ called' = <<"find_best_ready_pc">>
    /\ UNCHANGED <<Inputs, component_budgets, reply, state, data, message>>

\* find_next_ready_pc(profile_type, budget, exclude_names)
FindNext ==
    /\ run.pc = "idle"
    /\ \E exclude_names \in Exclusions :
           /\ data' = [shown_pcs |-> exclude_names]
           /\ run' = [pc |-> "next",
                      found |-> find_next_ready_pc(catalog, pc_type, total_budget, exclude_names)]
    /\ called' = <<"find_next_ready_pc">>
    /\ UNCHANGED <<Inputs, component_budgets, reply, state, message>>

NextPrebuilt == FindBest \/ FindNext

SpecPrebuilt == InitPrebuilt /\ [][NextPrebuilt]_vars

-----------------------------------------------------------------------------
(* The bot: the handlers of one chat, in the order the dispatcher tries them *)

DigitValue ==
    [d \in {"0", "1", "2", "3", "4", "5", "6", "7", "8", "9"} |->
        CASE d = "0" -> 0 [] d = "1" -> 1 [] d = "2" -> 2 [] d = "3" -> 3 [] d = "4" -> 4
          [] d = "5" -> 5 [] d = "6" -> 6 [] d = "7" -> 7 [] d = "8" -> 8 [] d = "9" -> 9]

\* str.strip() as int() applies it: leading and trailing whitespace removed
RECURSIVE LStrip(_)
LStrip(t) == IF t # <<>> /\ t[1] = " " THEN LStrip(Tail(t)) ELSE t

RECURSIVE RStrip(_)
RStrip(t) == IF t # <<>> /\ t[Len(t)] = " " THEN RStrip(SubSeq(t, 1, Len(t) - 1)) ELSE t

\* The digits of a literal after its optional sign
Unsigned(t) == IF t # <<>> /\ t[1] \in {"+", "-"} THEN Tail(t) ELSE t

RECURSIVE DigitsValue(_, _)
DigitsValue(digits, acc) ==
    IF digits = <<>> THEN acc
    ELSE DigitsValue(Tail(digits), acc * 10 + DigitValue[digits[1]])

\* Fault injection for C11: int() that drops the sign of the literal.
intIgnoringSign(text) ==
    LET digits == Unsigned(RStrip(LStrip(text)))
    IN  IF text = NoText THEN [error |-> "TypeError", value |-> 0]
        ELSE IF digits = <<>> \/ \E i \in DOMAIN digits : digits[i] \notin DOMAIN DigitValue
        THEN [error |-> "ValueError", value |-> 0]
        ELSE [error |-> None, value |-> DigitsValue(digits, 0)]

\* int(message.text): the value, or the exception it raises
int(text) ==
    LET literal == RStrip(LStrip(text))
        digits == Unsigned(literal)
    IN  IF text = NoText THEN [error |-> "TypeError", value |-> 0]
        ELSE IF digits = <<>> \/ \E i \in DOMAIN digits : digits[i] \notin DOMAIN DigitValue
        THEN [error |-> "ValueError", value |-> 0]
        ELSE [error |-> None,
              value |-> IF literal[1] = "-" THEN 0 - DigitsValue(digits, 0)
                        ELSE DigitsValue(digits, 0)]

\* F.text.in_([...]) of the two type menus
TypeTexts ==
    {<<"gaming">>, <<"home">>, <<"office">>, <<"server">>, <<"programming">>, <<"graphics">>}

\* The handlers in registration order; back_to_main_from_config stands behind
\* back_handler, which has the same text and no state filter.
HandlerOrder ==
    <<"start_handler", "back_handler", "ready_pc_handler", "select_ready_pc_type",
      "components_handler", "select_pc_type_for_components", "process_cpu_brand_selection",
      "process_budget", "show_purchase_links", "rebuild_configuration",
      "back_to_main_from_config", "show_next_pc_handler">>

\* The filters of each handler's decorator
Matches(handler, st, text) ==
    CASE handler = "start_handler" -> text = <<"/start">>
      [] handler = "back_handler" -> text = <<"home_button">>
      [] handler = "ready_pc_handler" -> st = "MAIN_MENU" /\ text = <<"ready_pc">>
      [] handler = "select_ready_pc_type" -> st = "CHOOSING_TYPE" /\ text \in TypeTexts
      [] handler = "components_handler" -> st = "MAIN_MENU" /\ text = <<"components">>
      [] handler = "select_pc_type_for_components" ->
             st = "CONFIGURATION_START" /\ text \in TypeTexts
      [] handler = "process_cpu_brand_selection" -> st = "CPU_BRAND_SELECTION"
      [] handler = "process_budget" -> st = "WAITING_FOR_BUDGET"
      [] handler = "show_purchase_links" -> st = "AUTO_BUILD_RESULT" /\ text = <<"links">>
      [] handler = "rebuild_configuration" -> st = "AUTO_BUILD_RESULT" /\ text = <<"rebuild">>
      [] handler = "back_to_main_from_config" ->
             st = "AUTO_BUILD_RESULT" /\ text = <<"home_button">>
      [] handler = "show_next_pc_handler" -> st = "SHOW_NEXT_PC" /\ text = <<"show_more">>

\* The dispatcher gives the message to the first handler whose filters match.
Handles(handler, text) ==
    \E i \in DOMAIN HandlerOrder :
        /\ HandlerOrder[i] = handler
        /\ Matches(handler, state, text)
        /\ \A j \in 1..(i - 1) : ~Matches(HandlerOrder[j], state, text)

\* The messages the user sends
Messages ==
    {NoText, <<"/start">>, <<"home_button">>, <<"menu_back_button">>, <<"ready_pc">>,
     <<"components">>, <<"gaming">>, <<"server">>, <<"back">>, <<"no_preference">>,
     <<"AMD">>, <<"show_more">>, <<"links">>, <<"rebuild">>,
     <<"6", "0", "0", "0", "0">>, <<" ", "+", "6", "0", "0", "0", "0">>, <<"0">>,
     <<"-", "5">>, <<"1", "2", ".", "5">>, <<"a", "b", "c">>}

BaseCatalog ==
    [cpu |-> CpuRows, motherboard |-> MotherboardRows, ram |-> RamRows,
     cooling_system |-> CoolingRows, gpu |-> GpuRows, ssd |-> SsdRows,
     storage |-> StorageRows, psu |-> PsuRows, cases |-> CaseRows]

\* The tables of the components with an empty table cases: every configuration built
\* from them carries a warning.
NoCasesCatalog == [BaseCatalog EXCEPT !.cases = {}]

\* A row of pc whose pc_name is NULL and which is the first result of a search at 60000
PcUnnamedFirst ==
    [pc_name |-> None, cores |-> 8, ram |-> 32, ssd |-> 1000, price |-> 60000,
     rating |-> 49, video_card_type |-> {"Discrete"}, link |-> None]

BotCatalog(t, parts) ==
    [c \in DOMAIN BaseCatalog \cup {"pc", "pc_profiles"} |->
        IF c = "pc" THEN t ELSE IF c = "pc_profiles" THEN ProfileRows ELSE parts[c]]

\* PC.db with its eleven tables
BotCatalogs ==
    {BotCatalog(t, parts) :
         t \in {PcRows, PcRows \cup {PcUnnamed}}, parts \in {BaseCatalog, EmptyCatalog}}
        \cup {BotCatalog(PcRows \cup {PcUnnamedFirst}, NoCasesCatalog)}

\* The arguments and locals of auto_build_pc, which live only inside its call
LastSearch == <<pc_type, total_budget, cpu_brand, component_budgets, run>>

InitBot ==
    /\ pc_type = "other"
    /\ total_budget = 0
    /\ cpu_brand = None
    /\ catalog \in BotCatalogs
    /\ component_budgets = <<>>
    /\ run = NotStarted
    /\ reply = "none"
    /\ state = None
    /\ data = <<>>
    /\ called = <<>>
    /\ message = NoText

\* Lines 756-773
StartHandler ==
    /\ \E text \in Messages : Handles("start_handler", text) /\ message' = text
    /\ state' = "MAIN_MENU"
    /\ reply' = "welcome"
    /\ called' = <<>>
    /\ UNCHANGED <<data, catalog, LastSearch>>

\* Lines 777-781: state.clear(), then start_handler
BackHandler ==
    /\ \E text \in Messages : Handles("back_handler", text) /\ message' = text
    /\ data' = <<>>
    /\ state' = "MAIN_MENU"
    /\ reply' = "welcome"
    /\ called' = <<>>
    /\ UNCHANGED <<catalog, LastSearch>>

\* Lines 785-802
ReadyPcHandler ==
    /\ \E text \in Messages : Handles("ready_pc_handler", text) /\ message' = text
    /\ state' = "CHOOSING_TYPE"
    /\ reply' = "choose the type of the ready PC"
    /\ called' = <<>>
    /\ UNCHANGED <<data, catalog, LastSearch>>

\* Lines 806-816
SelectReadyPcType ==
    \E text \in Messages :
        /\ Handles("select_ready_pc_type", text)
        /\ message' = text
        /\ data' = Put(data, "selected_type", text[1])
        /\ state' = "WAITING_FOR_BUDGET"
        /\ reply' = "you chose the type, enter the budget"
        /\ called' = <<>>
        /\ UNCHANGED <<catalog, LastSearch>>

\* Lines 820-837
ComponentsHandler ==
    /\ \E text \in Messages : Handles("components_handler", text) /\ message' = text
    /\ state' = "CONFIGURATION_START"
    /\ reply' = "choose the type to build"
    /\ called' = <<>>
    /\ UNCHANGED <<data, catalog, LastSearch>>

\* get_cpu_brands: SELECT DISTINCT manufacturer FROM cpu
get_cpu_brands(cat) == {r.manufacturer : r \in cat.cpu}

\* Lines 841-864
SelectPcTypeForComponents ==
    \E text \in Messages :
        /\ Handles("select_pc_type_for_components", text)
        /\ message' = text
        /\ data' = Put(data, "selected_type", text[1])
        /\ IF get_cpu_brands(catalog) = {}
           THEN reply' = "no manufacturers" /\ state' = state
           ELSE reply' = "choose the manufacturer" /\ state' = "CPU_BRAND_SELECTION"
        /\ called' = <<>>
        /\ UNCHANGED <<catalog, LastSearch>>

\* cpu_brand = None if message.text == 'Без предпочтений' else message.text; a text of
\* several characters is a manufacturer no row of cpu has.
BrandOf(text) ==
    IF text = NoText \/ text = <<"no_preference">> THEN None
    ELSE IF Len(text) = 1 THEN text[1] ELSE "unlisted"

\* Lines 868-881
ProcessCpuBrandSelection ==
    \E text \in Messages :
        /\ Handles("process_cpu_brand_selection", text)
        /\ message' = text
        /\ IF text = <<"back">>
           THEN /\ state' = "CONFIGURATION_START"
                /\ reply' = "choose the type to build"
                /\ data' = data
           ELSE /\ data' = Put(data, "cpu_brand", BrandOf(text))
                /\ state' = "WAITING_FOR_BUDGET"
                /\ reply' = "enter the budget"
        /\ called' = <<>>
        /\ UNCHANGED <<catalog, LastSearch>>

\* Lines 908-944: the prebuilt branch of process_budget
PrebuiltBranch(budget) ==
    LET best_pc == find_best_ready_pc(catalog, data["selected_type"], budget)
    IN  /\ called' = <<"find_best_ready_pc">>
        /\ IF best_pc = NoRow
           THEN reply' = "no suitable PC" /\ UNCHANGED <<state, data>>
           ELSE /\ reply' = "pc"
                /\ data' = Put(Put(Put(data, "shown_pcs", <<best_pc.pc_name>>),
                                   "budget", budget),
                               "pc_type", data["selected_type"])
                /\ state' = "SHOW_NEXT_PC"
        /\ UNCHANGED <<catalog, LastSearch>>

\* Lines 895-906: the components branch of process_budget, auto_build_pc run to its end
ComponentsBranch(budget) ==
    LET t == data["selected_type"]
        brand == data["cpu_brand"]
        st == auto_build_pc(t, budget, brand, catalog)
    IN  /\ called' = <<"auto_build_pc">>
        /\ reply' = Answer(st.ret)
        /\ data' = StoreConfiguration(data, st, budget)
        /\ state' = IF st.ret = None THEN state ELSE "AUTO_BUILD_RESULT"
        /\ UNCHANGED <<catalog, LastSearch>>

\* Lines 885-947; a TypeError of int(None) is not caught by except ValueError
ProcessBudgetMessage ==
    \E text \in Messages :
        /\ Handles("process_budget", text)
        /\ message' = text
        /\ LET budget == int(text)
           IN  IF budget.error = "TypeError"
               THEN /\ reply' = "unhandled TypeError"
                    /\ called' = <<>>
                    /\ UNCHANGED <<state, data, catalog, LastSearch>>
               ELSE IF budget.error = "ValueError" \/ budget.value <= 0
               THEN /\ reply' = "enter a correct budget"
                    /\ called' = <<>>
                    /\ UNCHANGED <<state, data, catalog, LastSearch>>
               ELSE IF "cpu_brand" \in DOMAIN data
               THEN ComponentsBranch(budget.value)
               ELSE PrebuiltBranch(budget.value)

\* comp.get('link'): a list has no get (AttributeError); a column the tables of the
\* model do not list is NULL
Link(comp_type, comp) ==
    IF comp_type = "warnings" THEN "AttributeError"
    ELSE IF "link" \in DOMAIN comp THEN comp.link ELSE None

\* Lines 972-1005
ShowPurchaseLinks ==
    /\ \E text \in Messages : Handles("show_purchase_links", text) /\ message' = text
    /\ LET components == data["components"]
           links == {Link(c, components[c]) : c \in DOMAIN components}
       IN  reply' = IF "AttributeError" \in links THEN "unhandled AttributeError"
                    ELSE IF links \ {None} # {} THEN "links"
                    ELSE "links unavailable"
    /\ called' = <<>>
    /\ UNCHANGED <<state, data, catalog, LastSearch>>

\* Lines 1009-1011: components_handler
RebuildConfiguration ==
    /\ \E text \in Messages : Handles("rebuild_configuration", text) /\ message' = text
    /\ state' = "CONFIGURATION_START"
    /\ reply' = "choose the type to build"
    /\ called' = <<>>
    /\ UNCHANGED <<data, catalog, LastSearch>>

\* Fault injection for C33: the handler presents the next system without recording its name.
ShowNextPcHandlerForgetful ==
    /\ \E text \in Messages : Handles("show_next_pc_handler", text) /\ message' = text
    /\ LET shown_pcs == IF "shown_pcs" \in DOMAIN data THEN data["shown_pcs"] ELSE <<>>
           next_pc == find_next_ready_pc(catalog, data["pc_type"], data["budget"], shown_pcs)
       IN  reply' = IF next_pc = NoRow THEN "no more variants" ELSE "pc"
    /\ called' = <<"find_next_ready_pc">>
    /\ UNCHANGED <<state, data, catalog, LastSearch>>

\* Lines 1021-1048
ShowNextPcHandler ==
    /\ \E text \in Messages : Handles("show_next_pc_handler", text) /\ message' = text
    /\ LET shown_pcs == IF "shown_pcs" \in DOMAIN data THEN data["shown_pcs"] ELSE <<>>
           next_pc == find_next_ready_pc(catalog, data["pc_type"], data["budget"], shown_pcs)
       IN  IF next_pc = NoRow
           THEN reply' = "no more variants" /\ data' = data
           ELSE reply' = "pc" /\ data' = Put(data, "shown_pcs", Append(shown_pcs, next_pc.pc_name))
    /\ called' = <<"find_next_ready_pc">>
    /\ UNCHANGED <<state, catalog, LastSearch>>

\* No handler's filters match: the update is dropped
Unhandled ==
    /\ \E text \in Messages :
           /\ \A i \in DOMAIN HandlerOrder : ~Matches(HandlerOrder[i], state, text)
           /\ message' = text
    /\ reply' = "not handled"
    /\ called' = <<>>
    /\ UNCHANGED <<state, data, catalog, LastSearch>>

NextBot ==
    \/ StartHandler
    \/ BackHandler
    \/ ReadyPcHandler
    \/ SelectReadyPcType
    \/ ComponentsHandler
    \/ SelectPcTypeForComponents
    \/ ProcessCpuBrandSelection
    \/ ProcessBudgetMessage
    \/ ShowPurchaseLinks
    \/ RebuildConfiguration
    \/ ShowNextPcHandler
    \/ Unhandled

SpecBot == InitBot /\ [][NextBot]_vars

-----------------------------------------------------------------------------
(* What a caller sees *)

Done == run.pc = "done"

\* auto_build_pc returned the components dict (a Configuration)
Returned == run.pc = "done" /\ run.ret = "components"

\* get_price of format_configuration: a part's price; the warnings list counts 0
get_price(components, key) == IF key = "warnings" THEN 0 ELSE components[key].price

RECURSIVE SumPrices(_, _)
SumPrices(components, keys) ==
    IF keys = {} THEN 0
    ELSE LET k == CHOOSE x \in keys : TRUE
         IN  get_price(components, k) + SumPrices(components, keys \ {k})

\* total_price = sum(get_price(comp) for comp in components.values())
total_price(components) == SumPrices(components, DOMAIN components)

RECURSIVE SumShares(_, _)
SumShares(table, keys) ==
    IF keys = {} THEN 0
    ELSE LET k == CHOOSE x \in keys : TRUE
         IN  table[k] + SumShares(table, keys \ {k})

RECURSIVE SumMinimums(_)
SumMinimums(keys) ==
    IF keys = {} THEN 0
    ELSE LET k == CHOOSE x \in keys : TRUE
         IN  MIN_BUDGETS[k] + SumMinimums(keys \ {k})

KnownProfiles == DOMAIN distributions \ {"other"}

-----------------------------------------------------------------------------
(* Claims *)

\* C1: auto_build_pc returns the components only when CPU, motherboard, RAM and PSU are
\* all among them; every other finished run returns None, whatever was selected.
C1_RequiredOrNone ==
    /\ run.ret = "components" => {"cpu", "motherboard", "ram", "psu"} \subseteq DOMAIN run.components
    /\ Done => run.ret \in {None, "components"}
    /\ Done /\ ~({"cpu", "motherboard", "ram", "psu"} \subseteq DOMAIN run.components) => run.ret = None

\* A run that committed CPU, motherboard and RAM, found no PSU, and returned None.
C1_Witness ==
    /\ Done /\ ~run.raised /\ run.ret = None
    /\ {"cpu", "motherboard", "ram"} \subseteq DOMAIN run.components
    /\ "psu" \notin DOMAIN run.components

\* C2: the total price of a returned configuration is at most the total budget.
C2_TotalWithinBudget == Returned => total_price(run.components) <= total_budget

\* C3: in a returned configuration the motherboard has the CPU's socket, the RAM's type is
\* listed by the CPU and by the motherboard, and the RAM's frequency is at most the
\* motherboard's maximum.
C3_PlatformCompatible ==
    Returned =>
        LET cpu == run.components["cpu"]
            mb == run.components["motherboard"]
            ram == run.components["ram"]
        IN  /\ mb.socket = cpu.socket
            /\ ram.ram_type \subseteq cpu.ram_type
            /\ ram.ram_type \subseteq mb.ram_type
            /\ ram.clock_freq <= mb.max_ram_freq

\* A configuration built in the DDR4 trial around a CPU that lists both generations,
\* from a catalog that holds faster DDR4 than the board takes.
C3_Witness ==
    /\ Returned
    /\ run.components["cpu"].ram_type = {"DDR4", "DDR5"}
    /\ run.components["ram"].ram_type = {"DDR4"}
    /\ \E r \in catalog.ram : /\ r.ram_type = {"DDR4"}
                              /\ r.clock_freq > run.components["motherboard"].max_ram_freq
                              /\ Within(r, component_budgets["ram"])

\* C4: the PSU of a returned configuration has at least the wattage required_power
\* computed in that run, from the first query or from the retry.
C4_PsuPower == Returned => run.components["psu"].power * 10 >= run.required_power

\* A configuration whose PSU came from the retry: it costs more than psu_budget.
C4_Witness ==
    /\ Returned
    /\ Milli(run.components["psu"].price) > run.psu_budget
    /\ run.required_power > 4500

\* C5: if the run succeeded, the run with any larger budget (same profile, brand and
\* catalog) succeeds too.
C5_Monotone ==
    Returned =>
        \A b2 \in Budgets :
            b2 > total_budget => auto_build_pc(pc_type, b2, cpu_brand, catalog).ret = "components"

\* C6: with a total budget of at least the sum of the minimums, every category of the
\* finished plan has at least its minimum.
C6_AtLeastMinimum ==
    run.pc = "allocated" /\ total_budget >= SumMinimums(DOMAIN MIN_BUDGETS) =>
        \A c \in DOMAIN component_budgets : component_budgets[c] >= Milli(MIN_BUDGETS[c])

\* C7: the shares of the table of each of the six known profiles sum to 100 percent.
C7_SharesSumToOne ==
    pc_type \in KnownProfiles =>
        SumShares(distributions[pc_type], DOMAIN distributions[pc_type]) = 100

\* C8: the plan has an entry for every category of the profile's table, and no entry of
\* the plan is negative (at every statement from the first floor on, and at the end).
C8_PlanCoversNonNegative ==
    run.pc \in {"minimums", "adapt", "caps", "allocated"} =>
        /\ DOMAIN distribution(pc_type) \subseteq DOMAIN component_budgets
        /\ \A c \in DOMAIN component_budgets : component_budgets[c] >= 0

\* A finished plan in which the floors took more from 'case' than it had: it is 0.
C8_Witness ==
    /\ run.pc = "allocated"
    /\ component_budgets["case"] = 0
    /\ RawBudgets(pc_type, total_budget)["case"] > 0

\* C9: with a total budget of 500 the run ends with None, failed at the required
\* components check.
C9_Budget500Fails == Done /\ total_budget = 500 /\ ~run.raised => run.ret = None

\* What a run that found no match returns, and what process_budget answers to it
NoMatchOutcome == <<generations_exhausted(RunInit(0)).ret, Answer(None)>>

\* C10: a run in which the store raised does not end with the return value and the
\* answer of a run that found no match.
C10_FaultDistinguishable ==
    run.raised /\ reply # "none" => <<run.ret, reply>> # NoMatchOutcome

-----------------------------------------------------------------------------
(* Claims about the stages of auto_build_pc and the caps of the allocator *)

\* The run has sized the PSU (required_power is at least 4500 once computed)
Sized == run.required_power > 0

Warned(text) == \E i \in DOMAIN run.warnings : run.warnings[i] = text

Stage1Committed == {"cpu", "motherboard", "ram"} \subseteq DOMAIN run.components

\* C14: required_power is (total_power + 100) rounded up to a multiple of 50, times 1.3
\* with floor 650 for gaming, times 1.2 with floor 550 for graphics, with floor 450
\* otherwise; so it is never less than total_power + 100 (all in tenths of a watt).
C14_RequiredRoundedUp ==
    Sized =>
        LET up == ((run.total_power + 100 + 49) \div 50) * 50
        IN  /\ run.required_power =
                   IF pc_type = "gaming" THEN Max(up * 13, 6500)
                   ELSE IF pc_type = "graphics" THEN Max(up * 12, 5500)
                   ELSE Max(up, 450) * 10
            /\ run.required_power >= (run.total_power + 100) * 10

\* The PSU stage has acted and sized the PSU.
PsuStageActed == run.pc = "psu" /\ run'.required_power > 0

\* C16: the ceiling of the first PSU query is base = max(plan's psu amount, psu minimum)
\* when the remaining budget is at most base, and otherwise
\* min(base + (remaining budget - base) / 2, remaining budget).
C16_HalfOfSurplus ==
    [][PsuStageActed =>
          LET base == Max(component_budgets["psu"], Milli(MIN_BUDGETS["psu"]))
              remaining == Milli(run.remaining_budget)
          IN  run'.psu_budget =
                  IF remaining <= base THEN base
                  ELSE Min(base + (remaining - base) \div 2, remaining)]_vars

\* The PSUs of the catalog that have the required wattage
PowerfulEnough == {r \in catalog.psu : r.power * 10 >= run.required_power}

\* C15: once CPU, motherboard and RAM are committed and nothing raised, the run returns
\* the components exactly when some PSU of the catalog has the required wattage; when
\* none of those is within psu_budget the committed PSU is a cheapest of them; when
\* there is none the warning is recorded and the run returns None.
C15_PsuDecides ==
    Done /\ ~run.raised /\ Stage1Committed =>
        /\ (run.ret = "components") <=> (PowerfulEnough # {})
        /\ (PowerfulEnough # {} /\ \A r \in PowerfulEnough : ~Within(r, run.psu_budget)) =>
               /\ run.components["psu"] \in PowerfulEnough
               /\ \A o \in PowerfulEnough : run.components["psu"].price <= o.price
        /\ PowerfulEnough = {} =>
               /\ Warned("no PSU with the required power")
               /\ run.ret = None

\* A configuration whose PSU is a cheapest of several with the required wattage,
\* all of them above psu_budget.
C15_Witness ==
    /\ Returned
    /\ Cardinality(PowerfulEnough) > 1
    /\ \A r \in PowerfulEnough : ~Within(r, run.psu_budget)

\* The three lookups of one generation trial, as the loop body makes them
TrialCpu(ram_type) == FetchOne(CpuQuery(catalog, component_budgets, cpu_brand, ram_type), "cpu")

TrialMotherboard(ram_type) ==
    IF TrialCpu(ram_type) = NoRow THEN NoRow
    ELSE FetchOne(MotherboardQuery(catalog, component_budgets, TrialCpu(ram_type).socket,
                                   ram_type), "motherboard")

TrialRam(ram_type) ==
    IF TrialMotherboard(ram_type) = NoRow THEN NoRow
    ELSE FetchOne(RamQuery(catalog, component_budgets, ram_type,
                           TrialMotherboard(ram_type).max_ram_freq,
                           RamModules(total_budget)), "ram")

InTrial == run.pc \in {"cpu", "motherboard", "ram", "exhausted"}

\* C17: while the trials run nothing is committed, paid or counted; the CPU,
\* motherboard and RAM of a returned configuration are the three lookups of one and the
\* same generation; when every generation fails the run returns None with nothing kept.
C17_AllOrNothing ==
    /\ InTrial =>
           /\ run.components = <<>>
           /\ run.remaining_budget = total_budget
           /\ run.total_power = 0
    /\ Returned =>
           \E ram_type \in {"DDR5", "DDR4"} :
               /\ run.components["cpu"] = TrialCpu(ram_type)
               /\ run.components["motherboard"] = TrialMotherboard(ram_type)
               /\ run.components["ram"] = TrialRam(ram_type)
    /\ Done /\ Warned("no compatible CPU, MB and RAM") =>
           run.ret = None /\ run.components = <<>>

\* A configuration built in the DDR4 trial after the DDR5 trial had found another CPU
\* (and was abandoned).
C17_Witness ==
    /\ Returned
    /\ TrialCpu("DDR5") # NoRow
    /\ TrialCpu("DDR5") # run.components["cpu"]
    /\ run.components["ram"].ram_type = {"DDR4"}

\* C18: when the DDR5 trial yields CPU, motherboard and RAM the run uses them and the
\* DDR4 trial is not run; DDR4 parts are committed only after a DDR5 lookup failed.
C18_Ddr5First ==
    /\ run.pc # "start" /\ TrialRam("DDR5") # NoRow =>
           /\ run.gen = 1
           /\ Stage1Committed =>
                  /\ run.components["cpu"] = TrialCpu("DDR5")
                  /\ run.components["motherboard"] = TrialMotherboard("DDR5")
                  /\ run.components["ram"] = TrialRam("DDR5")
    /\ Stage1Committed /\ ~Like(run.components["ram"].ram_type, "DDR5") =>
           /\ TrialRam("DDR5") = NoRow
           /\ Like(run.components["ram"].ram_type, "DDR4")

\* A configuration from the DDR5 trial in a catalog where the DDR4 trial would have
\* succeeded too.
C18_Witness ==
    /\ Returned
    /\ run.gen = 1
    /\ Like(run.components["ram"].ram_type, "DDR5")
    /\ TrialRam("DDR4") # NoRow

\* The office/server cap statement has acted.
CapsActed == run.pc = "caps" /\ run'.pc = "allocated" /\ pc_type \in {"office", "server"}

\* C19: for office and server the NVMe amount is capped at 10000 and the SSD amount
\* grows by half of what the NVMe amount had above 10000, and by nothing when the NVMe
\* amount was not above it.
C19_HalfOfExcess ==
    [][CapsActed =>
          LET nvme == Get(component_budgets, "nvme")
              excess == Max(0, nvme - Milli(10000))
          IN  /\ Get(component_budgets', "nvme") = Min(nvme, Milli(10000))
              /\ Get(component_budgets', "ssd") = Get(component_budgets, "ssd") + excess \div 2]_vars

AfterGpuStage ==
    run.pc \in {"nvme", "ssd", "hdd", "psu", "psu_retry", "case", "check", "done"}

\* C20: outside gaming and graphics no GPU is committed and no GPU warning recorded;
\* for those two, once the GPU stage is over, either a GPU is committed or the warning
\* is recorded, never both; a run with CPU, motherboard, RAM and PSU but no GPU
\* returns the components.
C20_GpuStage ==
    /\ pc_type \notin {"gaming", "graphics"} /\ run.pc # "start" =>
           /\ "gpu" \notin DOMAIN run.components
           /\ ~Warned("no compatible GPU")
    /\ pc_type \in {"gaming", "graphics"} /\ AfterGpuStage /\ Stage1Committed /\ ~run.raised =>
           ("gpu" \in DOMAIN run.components) # Warned("no compatible GPU")
    /\ Done /\ ~run.raised /\ "gpu" \notin DOMAIN run.components
          /\ {"cpu", "motherboard", "ram", "psu"} \subseteq DOMAIN run.components =>
           Returned

\* A gaming or graphics configuration returned without a GPU, with the GPU warning.
C20_Witness ==
    /\ Returned
    /\ pc_type \in {"gaming", "graphics"}
    /\ "gpu" \notin DOMAIN run.components
    /\ Warned("no compatible GPU")

-----------------------------------------------------------------------------
(* Claims about the prebuilt searches *)

\* The row a search returned, once it has
Found == run.found

\* The systems that qualify for the profile within the budget, read off the tables
Qualifying ==
    {r \in catalog.pc :
        \E p \in catalog.pc_profiles :
            /\ p.type = pc_type
            /\ r.cores >= p.min_cpu_cores /\ r.ram >= p.min_ram /\ r.ssd >= p.min_ssd_gb
            /\ r.price # NULL /\ r.price <= total_budget
            /\ p.gpu_required => "Discrete" \in r.video_card_type}

\* C12: find_next_ready_pc never returns a system whose name is in exclude_names.
C12_NeverExcluded ==
    run.pc = "next" /\ Found # NoRow =>
        \A i \in DOMAIN data.shown_pcs : data.shown_pcs[i] # Found.pc_name

\* A search that returned a system while the list excludes the name of a better
\* qualifying one.
C12_Witness ==
    /\ run.pc = "next" /\ Found # NoRow
    /\ \E r \in Qualifying : /\ PcBefore(r, Found)
                             /\ \E i \in DOMAIN data.shown_pcs : data.shown_pcs[i] = r.pc_name

\* C13: find_best_ready_pc returns None when the profile is unknown or no system
\* qualifies; otherwise a qualifying system that no other qualifying system beats on
\* price, or on rating at the same price.
C13_BestQualifying ==
    run.pc = "best" =>
        /\ Qualifying = {} => Found = NoRow
        /\ Qualifying # {} =>
               /\ Found \in Qualifying
               /\ \A o \in Qualifying :
                      ~(o.price > Found.price \/ (o.price = Found.price /\ o.rating > Found.rating))

\* A search for a profile that requires a discrete GPU, settled by the rating between
\* two qualifying systems of the same price, with a dearer system over the budget.
C13_Witness ==
    /\ run.pc = "best" /\ Found # NoRow
    /\ \E p \in catalog.pc_profiles : p.type = pc_type /\ p.gpu_required
    /\ \E o \in Qualifying : o # Found /\ o.price = Found.price
    /\ \E r \in catalog.pc : r.price > total_budget

-----------------------------------------------------------------------------
(* Claims about the conversation *)

\* The texts of Messages that are decimal literals of a positive integer
PositiveIntegerTexts == {<<"6", "0", "0", "0", "0">>, <<" ", "+", "6", "0", "0", "0", "0">>}

\* A message that is not a positive integer has arrived in the budget-entry state.
InvalidBudgetArrives ==
    /\ state = "WAITING_FOR_BUDGET"
    /\ message' \notin PositiveIntegerTexts

\* C11 as stated: in WAITING_FOR_BUDGET a message whose text is not a positive integer
\* calls neither search, leaves the state WAITING_FOR_BUDGET and leaves the data as
\* they were.
C11_InvalidBudgetRejected ==
    [][InvalidBudgetArrives =>
          /\ called' = <<>>
          /\ state' = "WAITING_FOR_BUDGET"
          /\ data' = data]_vars

\* C11 amended: such a message calls neither search, and leaves the state and the data
\* as they were unless it is the /start command (state MAIN_MENU, data kept) or the
\* main-menu button with the emoji (state MAIN_MENU, data cleared), which the
\* dispatcher gives to start_handler and back_handler before process_budget.
C11_InvalidBudgetNotResolved ==
    [][InvalidBudgetArrives =>
          /\ called' = <<>>
          /\ message' \notin {<<"/start">>, <<"home_button">>} =>
                 state' = "WAITING_FOR_BUDGET" /\ data' = data
          /\ message' = <<"/start">> => state' = "MAIN_MENU" /\ data' = data
          /\ message' = <<"home_button">> => state' = "MAIN_MENU" /\ data' = <<>>]_vars

\* A negative budget was answered with the request for a correct amount; the chat is
\* still in the budget-entry state with its type selection.
C11_Witness ==
    /\ state = "WAITING_FOR_BUDGET"
    /\ message = <<"-", "5">>
    /\ reply = "enter a correct budget"
    /\ called = <<>>
    /\ "selected_type" \in DOMAIN data

-----------------------------------------------------------------------------
(* Claims about the parts of a returned configuration *)

\* C21: in a returned configuration that holds a GPU, the GPU's connection interface is
\* the PCIe version of the motherboard record the configuration holds.
C21_GpuOnChosenBoard ==
    Returned /\ "gpu" \in DOMAIN run.components =>
        run.components["gpu"].con_interface = run.components["motherboard"].pcie_v

\* A storage sub-step ran its query, or the PSU stage ran its price-limited query, and
\* the query found no row.
NoCandidateStep ==
    \/ /\ run.pc = "nvme" /\ run'.pc = "ssd"
       /\ Get(component_budgets, "nvme") > 0
       /\ NvmeQuery(catalog, StorageCeiling(run, component_budgets, "nvme")) = {}
    \/ /\ run.pc = "ssd" /\ run'.pc = "hdd"
       /\ Get(component_budgets, "ssd") > 0 /\ run.remaining_budget > 0
       /\ SataQuery(catalog, StorageCeiling(run, component_budgets, "ssd")) = {}
    \/ /\ run.pc = "hdd" /\ run'.pc = "psu"
       /\ Get(component_budgets, "hdd") > 0 /\ run.remaining_budget > 0
       /\ HddQuery(catalog, StorageCeiling(run, component_budgets, "hdd")) = {}
    \/ /\ run.pc = "psu" /\ run'.pc \in {"psu_retry", "case"}
       /\ PsuQuery(catalog, run'.required_power, run'.psu_budget) = {}

\* C22: when a storage sub-step (NVMe, SATA SSD, HDD) or the first, price-limited PSU
\* query finds no candidate, the step appends a warning to the warning list and the run
\* goes on to the next stage.
C22_NoCandidateWarns ==
    [][NoCandidateStep =>
          /\ Len(run'.warnings) = Len(run.warnings) + 1
          /\ run'.pc # "done"]_vars

\* C23: in a returned configuration that holds a case, the case lists the motherboard's
\* form factor, is at least as long inside as the GPU (when there is one), and the
\* committed cooler (when there is one) fits it: a liquid cooler needs a case that
\* supports liquid cooling, an air cooler a height within the case's clearance.
C23_CaseAccommodates ==
    Returned /\ "case" \in DOMAIN run.components =>
        LET case == run.components["case"]
        IN  /\ run.components["motherboard"].form_factor \in case.motherboard_form
            /\ "gpu" \in DOMAIN run.components => case.gpu_length >= run.components["gpu"].length
            /\ "cooling_system" \in DOMAIN run.components =>
                   LET cooler == run.components["cooling_system"]
                   IN  IF cooler.type = "Liquid" THEN case.lcs_sup = "Y"
                       ELSE cooler.height <= case.cooler_height

\* C24: the cooling short-list never holds more than 3 candidates, and a cooler committed
\* to the configuration lists the CPU's socket, costs at most the plan's cooling amount
\* and dissipates at least 1.2 times the CPU's heat.
C24_CoolerQualified ==
    /\ Len(run.potential_coolers) <= 3
    /\ "cooling_system" \in DOMAIN run.components =>
           LET cooler == run.components["cooling_system"]
               cpu == run.components["cpu"]
           IN  /\ cpu.socket \in cooler.socket
               /\ Milli(cooler.price) <= component_budgets["cooling_system"]
               /\ cooler.power_dissipation * 10 >= cpu.heat_gen * 12

\* A returned configuration with a cooler, from a catalog in which more than 3 coolers
\* qualified: the short-list was cut to 3.
C24_Witness ==
    /\ Returned
    /\ "cooling_system" \in DOMAIN run.components
    /\ Len(run.potential_coolers) = 3
    /\ Cardinality({r \in catalog.cooling_system :
                       /\ run.components["cpu"].socket \in r.socket
                       /\ Milli(r.price) <= component_budgets["cooling_system"]
                       /\ r.power_dissipation * 10 >= run.components["cpu"].heat_gen * 12}) > 3

\* The draw a part declares, or the documented default when it declares none
DrawOr(row, default) == IF row.energy = NULL THEN default ELSE row.energy

\* The documented default draw of each slot that consumes power
DefaultDraw ==
    [cpu |-> 65, motherboard |-> 30, ram |-> 5, gpu |-> 150, nvme |-> 5, ssd |-> 5, hdd |-> 7]

\* The draw of the part in a slot: a RAM kit draws per module
SlotDraw(components, slot) ==
    IF slot = "ram"
    THEN DrawOr(components[slot], DefaultDraw[slot]) * components[slot].moduls_in_set
    ELSE DrawOr(components[slot], DefaultDraw[slot])

RECURSIVE SumDraws(_, _)
SumDraws(components, slots) ==
    IF slots = {} THEN 0
    ELSE LET s == CHOOSE x \in slots : TRUE
         IN  SlotDraw(components, s) + SumDraws(components, slots \ {s})

\* C25: when the PSU stage starts, total_power is the sum of the draws of the parts
\* committed so far (CPU, motherboard, RAM per module, GPU, NVMe, SSD, HDD), each its
\* declared draw or the default 65/30/5/150/5/5/7 when it declares none; and a trial
\* that has found its CPU, motherboard and RAM commits them and goes on to the cooling
\* stage with exactly that sum, whether or not the parts declare a draw.
C25_PowerIsSumOfDraws ==
    /\ run.pc = "psu" =>
           run.total_power = SumDraws(run.components, DOMAIN run.components \cap DOMAIN DefaultDraw)
    /\ (/\ run.pc = "ram"
        /\ RamQuery(catalog, component_budgets, Generations[run.gen], run.mb.max_ram_freq,
                    RamModules(total_budget)) # {}) =>
           LET committed == select_ram(run, total_budget, catalog, component_budgets)
           IN  /\ committed.pc = "cooling"
               /\ committed.total_power =
                      SumDraws(committed.components, {"cpu", "motherboard", "ram"})

\* The efficiency certificates the PSU query recognizes
RecognizedCertificates == {"Standart", "Bronze", "Silver", "Gold", "Platinum", "Titanium"}

\* The PSUs with the required wattage within the PSU price ceiling of the run
WithinCeiling == {r \in PowerfulEnough : Milli(r.price) <= run.psu_budget}

\* C26: when some PSU has the required wattage within the price ceiling, the committed
\* PSU is one of them; it has a recognized certificate whenever one of them has, and no
\* other of them with the same standing (recognized or not) is cheaper.
C26_CertifiedFirst ==
    Sized /\ "psu" \in DOMAIN run.components /\ WithinCeiling # {} =>
        LET psu == run.components["psu"]
            recognized(r) == r.certificate \in RecognizedCertificates
        IN  /\ psu \in WithinCeiling
            /\ (\E r \in WithinCeiling : recognized(r)) => recognized(psu)
            /\ \A o \in WithinCeiling : recognized(o) = recognized(psu) => psu.price <= o.price

-----------------------------------------------------------------------------
(* Claims about the course of a run *)

\* The place of a position in the order of the stages: the three queries of Stage 1
\* once per memory generation, then every later query once, the PSU retry after the
\* price-limited PSU query.
StageOrder ==
    <<"exhausted", "cooling", "gpu", "nvme", "ssd", "hdd", "psu", "psu_retry", "case",
      "check", "done">>

Rank(st) ==
    IF st.pc = "start" THEN 0
    ELSE IF st.pc \in {"cpu", "motherboard", "ram"}
    THEN 3 * (st.gen - 1) + (CHOOSE i \in 1..3 : <<"cpu", "motherboard", "ram">>[i] = st.pc)
    ELSE 3 * Len(Generations) + (CHOOSE i \in DOMAIN StageOrder : StageOrder[i] = st.pc)

\* C27: every step of a run moves forward in the order of the stages (a trial of
\* Stage 1 at most once per memory generation, every later query at most once, the PSU
\* retry only after the price-limited PSU query, no stage entered again after a later
\* one), and at every position short of the end the statement that stands next moves
\* forward too; the order has 3 * 2 + 11 places, so every run ends, with the components
\* or None, after at most that many steps.
C27_Terminates ==
    [][/\ run' # run => Rank(run') > Rank(run)
       /\ run'.pc # "done" =>
              Rank(Step(run', pc_type', total_budget', cpu_brand', catalog', component_budgets'))
                  > Rank(run')]_vars

\* A finished run that made both trials of Stage 1 and took its PSU from the retry.
C27_Witness ==
    /\ Done /\ ~run.raised
    /\ run.gen = 2
    /\ "psu" \in DOMAIN run.components
    /\ Milli(run.components["psu"].price) > run.psu_budget

\* C28: at every position of a run that has not raised, remaining_budget is the total
\* budget less the prices of the parts committed so far; so the total price of a
\* returned configuration is the total budget less the final remaining_budget, and the
\* short-listed coolers that were not committed are not paid.
C28_RemainingIsTotalLessPaid ==
    run.pc # "start" /\ ~run.raised =>
        run.remaining_budget = total_budget - total_price(run.components)

\* A returned configuration whose short-list held more coolers than the one committed,
\* with every kind of part the resolver pays for except the SATA SSD.
C28_Witness ==
    /\ Returned
    /\ Len(run.potential_coolers) > 1
    /\ {"cooling_system", "case", "gpu", "nvme", "hdd", "psu"} \subseteq DOMAIN run.components
    /\ total_price(run.components) = total_budget - run.remaining_budget

-----------------------------------------------------------------------------
(* Claims about the finished plan *)

\* C29: the amounts of the finished plan sum to at most the total budget (both in
\* thousandths).
C29_PlanWithinTotal ==
    run.pc = "allocated" =>
        SumShares(component_budgets, DOMAIN component_budgets) <= Milli(total_budget)

-----------------------------------------------------------------------------
(* Claims about the case stage *)

\* The case stage has run (and nothing raised).
AfterCaseStage == run.pc \in {"check", "done"} /\ ~run.raised /\ Stage1Committed

\* C30: the components hold a cooling system only when they hold a case; when the case
\* stage finds no case, no cooling system is committed however many coolers are
\* short-listed, the case warning is recorded and the cooling warning is not.
C30_CoolingNeedsCase ==
    /\ "cooling_system" \in DOMAIN run.components => "case" \in DOMAIN run.components
    /\ AfterCaseStage /\ "case" \notin DOMAIN run.components =>
           /\ "cooling_system" \notin DOMAIN run.components
           /\ Warned("no compatible case")
           /\ ~Warned("no compatible cooling system")

\* A returned configuration without a case and without a cooler, although coolers were
\* short-listed.
C30_Witness ==
    /\ Returned
    /\ run.potential_coolers # <<>>
    /\ "case" \notin DOMAIN run.components
    /\ "cooling_system" \notin DOMAIN run.components

\* C31: after the case stage, when a case was found and the short-list is not empty, the
\* committed cooler is the first of the short-list; and the cooling warning is recorded
\* only when the short-list is empty.
C31_FirstCoolerCommitted ==
    AfterCaseStage =>
        /\ ("case" \in DOMAIN run.components /\ run.potential_coolers # <<>>) =>
               /\ "cooling_system" \in DOMAIN run.components
               /\ run.components["cooling_system"] = run.potential_coolers[1]
        /\ Warned("no compatible cooling system") => run.potential_coolers = <<>>

\* A returned configuration with a case whose cooler is the first of a short-list of
\* several, the later ones fitting the case as well.
C31_Witness ==
    /\ Returned
    /\ "case" \in DOMAIN run.components
    /\ Len(run.potential_coolers) > 1
    /\ run.components["cooling_system"] = run.potential_coolers[1]
    /\ CoolerFitsCase(run.potential_coolers[2], run.components["case"])

-----------------------------------------------------------------------------
(* The conversation: the path the user chose *)

\* select_ready_pc_type has just answered: the user went through 'ready PC' and a type,
\* and the next message is the budget of the prebuilt path.
PrebuiltPathChosen ==
    state = "WAITING_FOR_BUDGET" /\ reply = "you chose the type, enter the budget"

\* C32: whatever happened earlier in the chat, a valid budget entered after the user
\* chose the prebuilt path is handled by find_best_ready_pc, never by auto_build_pc.
C32_PrebuiltPathSearchesPrebuilt ==
    [][(PrebuiltPathChosen /\ message' \in PositiveIntegerTexts)
           => called' = <<"find_best_ready_pc">>]_vars

\* The names presented in the browsing session: process_budget starts the list with the
\* first result (line 940), show_next_pc_handler appends the name of each system it has
\* just presented (lines 1043-1044).
ShownPcs == IF "shown_pcs" \in DOMAIN data THEN data["shown_pcs"] ELSE <<>>

Browsing == state = "SHOW_NEXT_PC"

PairwiseDistinct(names) ==
    \A i, j \in DOMAIN names : i # j => names[i] # names[j]

\* C33: within one browsing session no name is presented twice, and a request for
\* another variant either presents one more system, whose name is new, or reports that
\* no more variants exist; the names presented are names of rows of pc, so the report
\* comes after at most as many requests as pc has rows.
C33_NoNameTwice ==
    [][/\ Browsing' =>
              /\ PairwiseDistinct(ShownPcs')
              /\ ShownPcs' # <<>>
              /\ Len(ShownPcs') <= Cardinality(catalog'.pc)
              /\ \A i \in DOMAIN ShownPcs' : \E r \in catalog'.pc : r.pc_name = ShownPcs'[i]
       /\ (Browsing /\ message' = <<"show_more">>) =>
              \/ reply' = "no more variants" /\ ShownPcs' = ShownPcs
              \/ /\ reply' = "pc"
                 /\ Len(ShownPcs') = Len(ShownPcs) + 1
                 /\ SubSeq(ShownPcs', 1, Len(ShownPcs)) = ShownPcs]_vars

\* A session that presented two systems and then reported that no more exist, over a
\* table in which a second qualifying row carries a name already presented.
C33_Witness ==
    /\ Browsing
    /\ reply = "no more variants"
    /\ Len(ShownPcs) >= 2
    /\ \E r, o \in catalog.pc :
           /\ r # o /\ r.pc_name = o.pc_name
           /\ \E i \in DOMAIN ShownPcs : ShownPcs[i] = r.pc_name

\* One of the two type menus is open: ready_pc_handler or components_handler has sent
\* its keyboard, whose last button is the menu's 'return to main menu' button.
TypeMenuOpen == state \in {"CHOOSING_TYPE", "CONFIGURATION_START"}

\* C34: from either type menu, pressing the 'return to main menu' button of the menu's
\* own keyboard brings the conversation to MAIN_MENU.
C34_MenuButtonReturns ==
    [][(TypeMenuOpen /\ message' = <<"menu_back_button">>) => state' = "MAIN_MENU"]_vars

\* C35: for every configuration auto_build_pc can return, with or without warnings, the
\* purchase-links operation in AUTO_BUILD_RESULT completes without an error and answers
\* with the link buttons or with the 'links unavailable' message.
C35_LinksNeverRaise ==
    [][(state = "AUTO_BUILD_RESULT" /\ message' = <<"links">>)
           => reply' \in {"links", "links unavailable"}]_vars

=============================================================================
